---- MODULE Spec2Model ----
(***************************************************************************)
(* A model of wordleGuessr.py: the Wordle feedback engine (pattern_for),   *)
(* the candidate filter, the likelihood and entropy scorers, word loading  *)
(* and the WordleGUI session: the callbacks that edit the guess entry and  *)
(* the pattern buttons, and _apply_feedback, which reads them.             *)
(*                                                                         *)
(* Text (a word, a line of a file, the content of the guess entry) is a    *)
(* sequence of one-character strings: "crane" is <<"c","r","a","n","e">>.  *)
(* A feedback pattern is a sequence over "C", "P", "N".  The characters    *)
(* are those up to U+00FF, the ones a string of this module can hold;      *)
(* str.lower() and str.strip() are modelled on all of them.                *)
(***************************************************************************)
EXTENDS Integers, Sequences, FiniteSets, TLC

VARIABLES
    answers,          \* self.answers
    allowed,          \* self.allowed
    candidates,       \* self.candidates
    turn,             \* self.turn
    guess_entry,      \* text of self.guess_entry
    pattern_buttons,  \* texts of the five self.pattern_buttons
    ent_guess_var,    \* self.ent_guess_var ("Max-info guess")
    like_guess_var,   \* self.like_guess_var ("Most-likely solution")
    signal,           \* title of the message box the last _apply_feedback call showed
    accepted,         \* the (guess, pattern) pairs that reached the filter step
    fn,               \* direct calls of the module's functions: the function called
    args,             \* ... its arguments
    ret               \* ... what it returned

vars == <<answers, allowed, candidates, turn, guess_entry, pattern_buttons,
          ent_guess_var, like_guess_var, signal, accepted,
          fn, args, ret>>

sessionVars == <<answers, allowed, candidates, turn, guess_entry, pattern_buttons,
                 ent_guess_var, like_guess_var, signal, accepted>>

(***************************************************************************)
(* Characters and words                                                    *)
(***************************************************************************)

\* string.ascii_lowercase, in order
AlphaSeq ==
  <<"a","b","c","d","e","f","g","h","i","j","k","l","m",
    "n","o","p","q","r","s","t","u","v","w","x","y","z">>

\* the characters up to U+00FF that str.lower() changes: the letters A-Z and
\* the upper-case letters of Latin-1 ...
UpperSeq ==
  <<"A","B","C","D","E","F","G","H","I","J","K","L","M",
    "N","O","P","Q","R","S","T","U","V","W","X","Y","Z",
    "À","Á","Â","Ã","Ä","Å","Æ","Ç","È","É","Ê","Ë","Ì",
    "Í","Î","Ï","Ð","Ñ","Ò","Ó","Ô","Õ","Ö","Ø","Ù","Ú",
    "Û","Ü","Ý","Þ">>

\* ... and what it changes them to, position by position
LowerSeq ==
  AlphaSeq \o
  <<"à","á","â","ã","ä","å","æ","ç","è","é","ê","ë","ì",
    "í","î","ï","ð","ñ","ò","ó","ô","õ","ö","ø","ù","ú",
    "û","ü","ý","þ">>

Range(s) == {s[i] : i \in 1..Len(s)}

ALPHA == Range(AlphaSeq)

\* the fixed word length: range(5) and ["N"] * 5 in pattern_for, len(...) == 5 elsewhere
WordLen == 5

\* Python's None where a word is expected: a sequence that is no text
None == <<"None">>

\* the text of the placeholder the GUI shows for "no recommendation" (an em dash)
Dash == <<"-">>

\* position of a lower-case letter in the alphabet: the order sorted() uses on words
Ord(ch) == CHOOSE i \in 1..Len(AlphaSeq) : AlphaSeq[i] = ch

\* str.lower() on one character
LowerChar(ch) ==
  IF ch \in Range(UpperSeq)
    THEN LowerSeq[CHOOSE i \in 1..Len(UpperSeq) : UpperSeq[i] = ch]
    ELSE ch

\* str.lower()
lower(text) == [i \in 1..Len(text) |-> LowerChar(text[i])]

\* the characters up to U+00FF that str.strip() removes: tab, line feed,
\* vertical tab, form feed, carriage return, the separators U+001C to U+001F,
\* space, next line (U+0085) and no-break space (U+00A0)
Whitespace ==
  {"\t", "\n", "", "\f", "\r", "", "", "", "",
   " ", "", " "}

IsSpace(ch) == ch \in Whitespace

\* str.strip(): leading and trailing whitespace removed
strip(text) ==
  LET keep == {i \in 1..Len(text) : ~IsSpace(text[i])}
  IN  IF keep = {} THEN <<>>
      ELSE LET lo == CHOOSE i \in keep : \A j \in keep : i <= j
               hi == CHOOSE i \in keep : \A j \in keep : j <= i
           IN  SubSeq(text, lo, hi)

\* "g in cands" on a list
Member(w, s) == \E i \in 1..Len(s) : s[i] = w

\* Loops over a list are written over an index range lo..hi that is split in
\* two halves run one after the other: the elements are visited in list order,
\* as the code visits them, and the evaluation stays shallow on long lists.

\* the middle of lo..hi
Mid(lo, hi) == (lo + hi) \div 2

\* w, once v is computed: a loop's state is complete before the loop goes on
Strict(v, w) == IF v = v THEN w ELSE w

\* a list comprehension [w for w in s if Keep(w)], over s[lo..hi]: keepSet
\* holds the positions of the words that satisfy Keep
RECURSIVE SelectIn(_, _, _, _)
SelectIn(s, keepSet, lo, hi) ==
  IF lo > hi THEN <<>>
  ELSE IF lo = hi THEN (IF lo \in keepSet THEN <<s[lo]>> ELSE <<>>)
  ELSE SelectIn(s, keepSet, lo, Mid(lo, hi))
         \o SelectIn(s, keepSet, Mid(lo, hi) + 1, hi)

(***************************************************************************)
(* Wordle mechanics                                                        *)
(***************************************************************************)

\* pattern_for, first loop: "C" where guess and solution agree, "N" elsewhere
FirstPass(g, s) == [i \in 1..WordLen |-> IF g[i] = s[i] THEN "C" ELSE "N"]

\* pattern_for, first loop: the Counter of the solution's unmatched letters
\* (a Counter reads 0 for a letter it does not hold)
RemainingAfterFirstPass(g, s) ==
  [ch \in Range(g) \cup Range(s) |->
      Cardinality({i \in 1..WordLen : g[i] # s[i] /\ s[i] = ch})]

\* the second loop of a pattern_for that marks Present without spending the letter
RECURSIVE SecondPassNoDecrement(_, _, _, _)
SecondPassNoDecrement(g, res, remaining, i) ==
  IF i > WordLen THEN res
  ELSE IF res[i] = "C" THEN SecondPassNoDecrement(g, res, remaining, i + 1)
  ELSE IF remaining[g[i]] > 0
    THEN SecondPassNoDecrement(g, [res EXCEPT ![i] = "P"], remaining, i + 1)
    ELSE SecondPassNoDecrement(g, [res EXCEPT ![i] = "N"], remaining, i + 1)

pattern_for_no_decrement(guess, solution) ==
  SecondPassNoDecrement(guess, FirstPass(guess, solution),
                        RemainingAfterFirstPass(guess, solution), 1)

\* pattern_for, second loop, from position i on
RECURSIVE SecondPass(_, _, _, _)
SecondPass(g, res, remaining, i) ==
  IF i > WordLen THEN res
  ELSE IF res[i] = "C" THEN SecondPass(g, res, remaining, i + 1)
  ELSE IF remaining[g[i]] > 0
    THEN SecondPass(g, [res EXCEPT ![i] = "P"],
                    [remaining EXCEPT ![g[i]] = @ - 1], i + 1)
    ELSE SecondPass(g, [res EXCEPT ![i] = "N"], remaining, i + 1)

pattern_for(guess, solution) ==
  SecondPass(guess, FirstPass(guess, solution),
             RemainingAfterFirstPass(guess, solution), 1)

consistent_with(guess, pat, candidate) == pattern_for(guess, candidate) = pat

\* a filter that also drops the first word it would keep
filter_candidates_drop_first(cands, guess, pat) ==
  LET kept == SelectIn(cands,
                 {i \in 1..Len(cands) : consistent_with(guess, pat, cands[i])},
                 1, Len(cands))
  IN  IF kept = <<>> THEN kept ELSE Tail(kept)

\* a filter that returns the kept words in the opposite order
filter_candidates_reversed(cands, guess, pat) ==
  LET kept == SelectIn(cands,
                 {i \in 1..Len(cands) : consistent_with(guess, pat, cands[i])},
                 1, Len(cands))
  IN  [i \in 1..Len(kept) |-> kept[Len(kept) + 1 - i]]

\* a filter that keeps the words whose pattern differs
filter_candidates_inverted(cands, guess, pat) ==
  SelectIn(cands, {i \in 1..Len(cands) : ~consistent_with(guess, pat, cands[i])},
           1, Len(cands))

filter_candidates(cands, guess, pat) ==
  SelectIn(cands, {i \in 1..Len(cands) : consistent_with(guess, pat, cands[i])},
           1, Len(cands))

AllCorrect == <<"C","C","C","C","C">>
AllAbsent  == <<"N","N","N","N","N">>

(***************************************************************************)
(* Scoring: likelihood                                                     *)
(*                                                                         *)
(* A likelihood score is kept in tenths: the code's float                  *)
(* sum(pos_freq) + 0.1 * len(seen) is the integer 10 * sum + len(seen)     *)
(* here.  The sum is a whole number and len(seen) is 1..5, so two scores   *)
(* compare with ">" in the code exactly as their tenths compare here.      *)
(***************************************************************************)

\* pos[i][ch]: how many of the words hold ch at position i (a Counter reads 0
\* for a letter it does not hold)
position_frequencies(words) ==
  [i \in 1..WordLen |->
     [ch \in ALPHA |-> Cardinality({k \in 1..Len(words) : words[k][i] = ch})]]

RECURSIVE SumFreq(_, _, _)
SumFreq(word, pos_freq, i) ==
  IF i > Len(word) THEN 0
  ELSE pos_freq[i][word[i]] + SumFreq(word, pos_freq, i + 1)

\* in tenths
likelihood_score(word, pos_freq) ==
  10 * SumFreq(word, pos_freq, 1) + Cardinality(Range(word))

\* best_s = -1.0 before the scan, in tenths
InitialBestScore == -10

\* the loop of best_likelihood_guess over cands[lo..hi], entered with
\* best = <<best, best_s>>
RECURSIVE LikelihoodScan(_, _, _, _, _)
LikelihoodScan(cands, pf, lo, hi, best) ==
  IF lo > hi THEN best
  ELSE IF lo = hi
    THEN LET w == cands[lo]
             s == likelihood_score(w, pf)
         IN  IF s > best[2] THEN <<w, s>> ELSE best
  ELSE LET first == LikelihoodScan(cands, pf, lo, Mid(lo, hi), best)
       IN  Strict(first, LikelihoodScan(cands, pf, Mid(lo, hi) + 1, hi, first))

\* returns <<best, best_s>>; on an empty list the loop body never runs and the
\* initial <<None, -1.0>> is returned
best_likelihood_guess(cands) ==
  LikelihoodScan(cands, position_frequencies(cands), 1, Len(cands),
                 <<None, InitialBestScore>>)

(***************************************************************************)
(* Scoring: entropy                                                        *)
(*                                                                         *)
(* entropy_of_guess adds the terms -p * log2(p), p = k / n, one per bucket,*)
(* in the order the buckets were created, in double precision.  The model  *)
(* computes the same double.  A double x >= 0 is the pair <<hi, lo>> with  *)
(*   x = (hi * FloatLimb + lo) / 2^58,   0 <= lo < FloatLimb,              *)
(* which is exact for every term and every partial sum of up to            *)
(* Len(EntropyTerms) candidates.  EntropyTerms[n][k] is the double that    *)
(* -p * log2(p) evaluates to for p = k / n, and FloatAdd is the addition   *)
(* of two doubles, rounded to the nearest double with 53 significant bits, *)
(* ties to even.                                                           *)
(*                                                                         *)
(* math.log2 is the log2 of the C library, which is not required to        *)
(* return the nearest double, so its last bit belongs to the build.  One   *)
(* entry is known to differ between builds: for p = 55 / 57 the table      *)
(* holds the product with log2(p) = -0.051530300640082065 (the nearest     *)
(* double to the logarithm), 0.04972221991586866; a library that returns   *)
(* -0.05153030064008207 gives <<13347206, 833705214>>, one unit in the     *)
(* last place more.  The lists of this module have at most 40 words and    *)
(* do not reach that entry.                                                *)
(***************************************************************************)

FloatLimb == 2^30

\* hi of the smallest double with more than 53 significant bits at 2^-58
MantissaTop == 2^23

\* -p * log2(p) for p = k / n, at EntropyTerms[n][k]
EntropyTerms ==
  <<
    <<<<0, 0>>>>,
    <<<<134217728, 0>>, <<0, 0>>>>,
    <<<<141820043, 939160416>>, <<104683117, 88751136>>, <<0, 0>>>>,
    <<<<134217728, 0>>, <<134217728, 0>>, <<83558085, 302808160>>, <<0, 0>>>>,
    <<<<124657565, 418823808>>, <<141940948, 408150880>>, <<118696617, 210227808>>, <<69133531, 1031050160>>, <<0, 0>>>>,
    <<<<115649264, 648537168>>, <<141820043, 939160416>>, <<134217728, 0>>, <<104683117, 88751136>>, <<58839800, 602801792>>, <<0, 0>>>>,
    <<<<107656228, 407466208>>, <<138616612, 201365664>>, <<140628628, 781865152>>, <<123841535, 249339680>>, <<93075551, 234748368>>, <<51169723, 796771856>>, <<0, 0>>>>,
    <<<<100663296, 0>>, <<134217728, 0>>, <<142442338, 688275008>>, <<134217728, 0>>, <<113761588, 167570592>>, <<83558085, 302808160>>, <<45248673, 188623968>>, <<0, 0>>>>,
    <<<<94546695, 984020880>>, <<129441068, 297776720>>, <<141820043, 939160416>>, <<139577489, 476248768>>, <<126462464, 654784112>>, <<104683117, 88751136>>, <<75698516, 971274944>>, <<40545684, 713888272>>, <<0, 0>>>>,
    <<<<89172328, 316786096>>, <<124657565, 418823808>>, <<139878945, 427236448>>, <<141940948, 408150880>>, <<134217728, 0>>, <<118696617, 210227808>>, <<96690779, 6169808>>, <<69133531, 1031050160>>, <<36722717, 786085672>>, <<0, 0>>>>,
    <<<<84421282, 200079200>>, <<120036117, 888222864>>, <<137229265, 222285184>>, <<142459342, 605091008>>, <<138793762, 341362336>>, <<128039190, 835021952>>, <<111389412, 561606496>>, <<89692898, 1014956192>>, <<63584051, 606740152>>, <<33555291, 975563384>>, <<0, 0>>>>,
    <<<<80194253, 682182528>>, <<115649264, 648537168>>, <<134217728, 0>>, <<141820043, 939160416>>, <<141268006, 1017228768>>, <<134217728, 0>>, <<121763509, 606059728>>, <<104683117, 88751136>>, <<83558085, 302808160>>, <<58839800, 602801792>>, <<30888861, 296790480>>, <<0, 0>>>>,
    <<<<76409940, 259326464>>, <<111522118, 23079760>>, <<131046713, 458173504>>, <<140448711, 128755040>>, <<142323613, 986775008>>, <<138200139, 503369344>>, <<129088413, 196855440>>, <<115706372, 422701120>>, <<98590818, 415102800>>, <<78158415, 569426064>>, <<54742023, 907719880>>, <<28613704, 180783404>>, <<0, 0>>>>,
    <<<<73002075, 357124800>>, <<107656228, 407466208>>, <<127836197, 851107648>>, <<138616612, 201365664>>, <<142407581, 347461728>>, <<140628628, 781865152>>, <<134217728, 0>>, <<123841535, 249339680>>, <<109998508, 818780816>>, <<93075551, 234748368>>, <<73381746, 971983360>>, <<51169723, 796771856>>, <<26649843, 591831472>>, <<0, 0>>>>,
    <<<<69916530, 613771184>>, <<104041667, 10634960>>, <<124657565, 418823808>>, <<136500545, 808680576>>, <<141820043, 939160416>>, <<141940948, 408150880>>, <<137738701, 316778720>>, <<129835514, 1044698848>>, <<118696617, 210227808>>, <<104683117, 88751136>>, <<88083493, 341463952>>, <<69133531, 1031050160>>, <<48029570, 762313264>>, <<24937643, 705140276>>, <<0, 0>>>>,
    <<<<67108864, 0>>, <<100663296, 0>>, <<121552817, 344137504>>, <<134217728, 0>>, <<140766874, 83785280>>, <<142442338, 688275008>>, <<140064848, 631182880>>, <<134217728, 0>>, <<125337127, 991083168>>, <<113761588, 167570592>>, <<99761557, 500167008>>, <<83558085, 302808160>>, <<65335238, 213654344>>, <<45248673, 188623968>>, <<23431748, 898301532>>, <<0, 0>>>>,
    <<<<64542350, 105737696>>, <<97504058, 337797984>>, <<118545850, 641107216>>, <<131846832, 928241088>>, <<139391801, 418061408>>, <<142349775, 587440352>>, <<141493204, 197315296>>, <<137371098, 214288768>>, <<130393952, 747520384>>, <<120880393, 393993824>>, <<109084960, 244311904>>, <<95215699, 859074224>>, <<79445851, 249289648>>, <<61921915, 205146768>>, <<42769405, 726171160>>, <<22097061, 365416296>>, <<0, 0>>>>,
    <<<<62186428, 909576704>>, <<94546695, 984020880>>, <<115649264, 648537168>>, <<129441068, 297776720>>, <<137796636, 804610656>>, <<141820043, 939160416>>, <<142240824, 724246752>>, <<139577489, 476248768>>, <<134217728, 0>>, <<126462464, 654784112>>, <<116552098, 189737008>>, <<104683117, 88751136>>, <<91019136, 83947472>>, <<75698516, 971274944>>, <<58839800, 602801792>>, <<40545684, 713888272>>, <<20906002, 760919932>>, <<0, 0>>>>,
    <<<<60015492, 628770488>>, <<91774621, 409850080>>, <<112868562, 254678752>>, <<127036515, 198060160>>, <<136054350, 614823040>>, <<140968033, 113768416>>, <<142468701, 242359520>>, <<141047575, 226582144>>, <<137071940, 164105344>>, <<130826882, 212417008>>, <<122540147, 725679616>>, <<112397883, 510100464>>, <<100555093, 46564944>>, <<87142855, 993333616>>, <<72273474, 128756400>>, <<56044240, 114087912>>, <<38540259, 321299560>>, <<19836606, 215185232>>, <<0, 0>>>>,
    <<<<58007936, 1017386512>>, <<89172328, 316786096>>, <<110204791, 106244032>>, <<124657565, 418823808>>, <<134217728, 0>>, <<139878945, 427236448>>, <<142297799, 110459072>>, <<141940948, 408150880>>, <<139157314, 70920320>>, <<134217728, 0>>, <<127338549, 209721808>>, <<118696617, 210227808>>, <<108439185, 297297776>>, <<96690779, 6169808>>, <<83558085, 302808160>>, <<69133531, 1031050160>>, <<53497969, 198404328>>, <<36722717, 786085672>>, <<18871160, 894340104>>, <<0, 0>>>>,
    <<<<56145415, 781293480>>, <<86725549, 1000150752>>, <<107656228, 407466208>>, <<122320536, 875429120>>, <<132325215, 84381008>>, <<138616612, 201365664>>, <<141820043, 939160416>>, <<142379947, 574855328>>, <<140628628, 781865152>>, <<136824022, 577806528>>, <<131172185, 180851024>>, <<123841535, 249339680>>, <<114972313, 1013836992>>, <<104683117, 88751136>>, <<93075551, 234748368>>, <<80237642, 945188400>>, <<66246392, 220199096>>, <<51169723, 796771856>>, <<35068002, 507702960>>, <<17995229, 899960236>>, <<0, 0>>>>,
    <<<<54412252, 783329848>>, <<84421282, 200079200>>, <<105219467, 550400608>>, <<120036117, 888222864>>, <<130404939, 365906976>>, <<137229265, 222285184>>, <<141105987, 768867712>>, <<142459342, 605091008>>, <<141606530, 547402304>>, <<138793762, 341362336>>, <<134217728, 0>>, <<128039190, 835021952>>, <<120392017, 284545024>>, <<111389412, 561606496>>, <<101128364, 689710784>>, <<89692898, 1014956192>>, <<77156515, 604502928>>, <<63584051, 606740152>>, <<49033128, 75521808>>, <<33555291, 975563384>>, <<17196928, 446898816>>, <<0, 0>>>>,
    <<<<52794974, 673115504>>, <<82247735, 739333456>>, <<102890124, 111262848>>, <<117811044, 264871792>>, <<128477519, 482744000>>, <<135753607, 549316704>>, <<140210248, 949293824>>, <<142253234, 249637024>>, <<142185972, 1051988544>>, <<140243971, 78483936>>, <<136615366, 842917536>>, <<131453933, 678473552>>, <<124887717, 1009462464>>, <<117025002, 871530224>>, <<107958559, 497748400>>, <<97768759, 1012802752>>, <<86525908, 777460880>>, <<74292023, 936866432>>, <<61122221, 259219152>>, <<47065806, 530443256>>, <<32167148, 228714172>>, <<16466384, 378671148>>, <<0, 0>>>>,
    <<<<51281937, 520048232>>, <<80194253, 682182528>>, <<100663296, 0>>, <<115649264, 648537168>>, <<126558056, 866528336>>, <<134217728, 0>>, <<139175429, 481986816>>, <<141820043, 939160416>>, <<142442338, 688275008>>, <<141268006, 1017228768>>, <<138477347, 1043180096>>, <<134217728, 0>>, <<128611858, 102698416>>, <<121763509, 606059728>>, <<113761588, 167570592>>, <<104683117, 88751136>>, <<94595471, 498761488>>, <<83558085, 302808160>>, <<71623777, 960031184>>, <<58839800, 602801792>>, <<45248673, 188623968>>, <<30888861, 296790480>>, <<15795329, 793139810>>, <<0, 0>>>>,
    <<<<49863026, 167529528>>, <<78251215, 893404800>>, <<98533862, 722836576>>, <<113552758, 756017456>>, <<124657565, 418823808>>, <<132643215, 973226768>>, <<138034975, 502921920>>, <<141206171, 524192416>>, <<142435940, 681770080>>, <<141940948, 408150880>>, <<139894281, 1003290528>>, <<136437412, 1001560704>>, <<131688143, 1069082128>>, <<125746095, 619296768>>, <<118696617, 210227808>>, <<110613651, 146441728>>, <<101561877, 551932272>>, <<91598352, 1019942800>>, <<80773784, 30669904>>, <<69133531, 1031050160>>, <<56718415, 903018112>>, <<43565362, 632191488>>, <<29707938, 519272040>>, <<15176788, 113335822>>, <<0, 0>>>>,
    <<<<48529410, 790427424>>, <<76409940, 259326464>>, <<96496678, 600766608>>, <<111522118, 23079760>>, <<122784010, 39112112>>, <<131046713, 458173504>>, <<136815290, 965680736>>, <<140448711, 128755040>>, <<142215374, 785720064>>, <<142323613, 986775008>>, <<140939858, 742944256>>, <<138200139, 503369344>>, <<134217728, 0>>, <<129088413, 196855440>>, <<122894261, 928434384>>, <<115706372, 422701120>>, <<107586937, 203004368>>, <<98590818, 415102800>>, <<88766772, 341006800>>, <<78158415, 569426064>>, <<66804997, 167108872>>, <<54742023, 907719880>>, <<42001770, 932911704>>, <<28613704, 180783404>>, <<14604831, 1031530116>>, <<0, 0>>>>,
    <<<<47273347, 1028881352>>, <<74662588, 69351920>>, <<94546695, 984020880>>, <<109556960, 456849568>>, <<120943068, 143493936>>, <<129441068, 297776720>>, <<135537317, 576997824>>, <<139577489, 476248768>>, <<141820043, 939160416>>, <<142465597, 8610336>>, <<141674414, 836903712>>, <<139577489, 476248768>>, <<136283897, 537629280>>, <<131885880, 120022048>>, <<126462464, 654784112>>, <<120082116, 77596816>>, <<112804723, 531448128>>, <<104683117, 88751136>>, <<95764247, 404433072>>, <<86090115, 534207472>>, <<75698516, 971274944>>, <<64623643, 202383440>>, <<52896574, 255761936>>, <<40545684, 713888272>>, <<27596982, 408967284>>, <<14074392, 995722136>>, <<0, 0>>>>,
    <<<<46088018, 255258248>>, <<73002075, 357124800>>, <<92679040, 655641360>>, <<107656228, 407466208>>, <<119138693, 557210080>>, <<127836197, 851107648>>, <<134217728, 0>>, <<138616612, 201365664>>, <<141282079, 562782080>>, <<142407581, 347461728>>, <<142147659, 792775072>>, <<140628628, 781865152>>, <<137955669, 219219904>>, <<134217728, 0>>, <<129491010, 47221520>>, <<123841535, 249339680>>, <<117327053, 717063136>>, <<109998508, 818780816>>, <<101901174, 271267280>>, <<93075551, 234748368>>, <<83558085, 302808160>>, <<73381746, 971983360>>, <<62576505, 1053536608>>, <<51169723, 796771856>>, <<39186479, 264386528>>, <<26649843, 591831472>>, <<13581111, 697145866>>, <<0, 0>>>>,
    <<<<44967391, 172776296>>, <<71421992, 271501440>>, <<90889056, 449018800>>, <<105818404, 394900560>>, <<117373537, 391749744>>, <<126239742, 675884112>>, <<132869835, 2598592>>, <<137585648, 493596480>>, <<140627818, 65384288>>, <<142183124, 413243680>>, <<142400780, 584393568>>, <<141402744, 907461312>>, <<139290571, 290537664>>, <<136150139, 560580864>>, <<132055026, 828698752>>, <<127068976, 394783664>>, <<121247747, 32187216>>, <<114640525, 538049984>>, <<107291024, 380043264>>, <<99238348, 85975776>>, <<90517685, 596366880>>, <<81160870, 354224384>>, <<71196838, 914669184>>, <<60652008, 926308672>>, <<49550594, 671831792>>, <<37914871, 692152096>>, <<25765400, 646103872>>, <<13121218, 84445450>>, <<0, 0>>>>,
    <<<<43906113, 879547896>>, <<69916530, 613771184>>, <<89172328, 316786096>>, <<104041667, 10634960>>, <<115649264, 648537168>>, <<124657565, 418823808>>, <<131504290, 408929136>>, <<136500545, 808680576>>, <<139878945, 427236448>>, <<141820043, 939160416>>, <<142468080, 564437312>>, <<141940948, 408150880>>, <<140336816, 309573856>>, <<137738701, 316778720>>, <<134217728, 0>>, <<129835514, 1044698848>>, <<124645962, 332977888>>, <<118696617, 210227808>>, <<112029735, 125773696>>, <<104683117, 88751136>>, <<96690779, 6169808>>, <<88083493, 341463952>>, <<78889231, 987304336>>, <<69133531, 1031050160>>, <<58839800, 602801792>>, <<48029570, 762313264>>, <<36722717, 786085672>>, <<24937643, 705140276>>, <<12691435, 226507244>>, <<0, 0>>>>,
    <<<<42899417, 647439240>>, <<68480418, 740689168>>, <<87524691, 734463776>>, <<102324004, 372999680>>, <<113966793, 370946272>>, <<123094133, 880101392>>, <<130129626, 805337088>>, <<135374342, 676725696>>, <<139053391, 727313056>>, <<141341504, 118429568>>, <<142378266, 417978976>>, <<142277768, 582550464>>, <<141135012, 733696000>>, <<139030337, 952574336>>, <<136032574, 442278112>>, <<132201353, 141162208>>, <<127588835, 460953024>>, <<122241034, 761889472>>, <<116198843, 407149888>>, <<109498843, 63674992>>, <<102173952, 403484432>>, <<94253951, 108584480>>, <<85765908, 876223536>>, <<76734538, 957279904>>, <<67182493, 408383536>>, <<57130610, 705381648>>, <<46598124, 974929912>>, <<35602844, 588949024>>, <<24161305, 129840648>>, <<12288901, 87909082>>, <<0, 0>>>>,
    <<<<41943040, 0>>, <<67108864, 0>>, <<85942232, 708939664>>, <<100663296, 0>>, <<112326477, 41892656>>, <<121552817, 344137504>>, <<128752680, 315591440>>, <<134217728, 0>>, <<138166035, 1032412480>>, <<140766874, 83785280>>, <<142155466, 786954400>>, <<142442338, 688275008>>, <<141719523, 106827168>>, <<140064848, 631182880>>, <<137544994, 449150784>>, <<134217728, 0>>, <<130133580, 722777968>>, <<125337127, 991083168>>, <<119867984, 288657856>>, <<113761588, 167570592>>, <<107049829, 540642864>>, <<99761557, 500167008>>, <<91922995, 750828304>>, <<83558085, 302808160>>, <<74688770, 418926448>>, <<65335238, 213654344>>, <<55516121, 887759848>>, <<45248673, 188623968>>, <<34548911, 56180040>>, <<23431748, 898301532>>, <<11911105, 118823964>>, <<0, 0>>>>,
    <<<<41033158, 705211016>>, <<65797501, 857282296>>, <<84421282, 200079200>>, <<99057372, 608285136>>, <<110728243, 800979600>>, <<120036117, 888222864>>, <<127378923, 3946560>>, <<133039483, 77753200>>, <<137229265, 222285184>>, <<140112409, 983744192>>, <<141820043, 939160416>>, <<142459342, 605091008>>, <<142119550, 421097504>>, <<140876137, 430882304>>, <<138793762, 341362336>>, <<135928442, 25355872>>, <<132329176, 650539328>>, <<128039190, 835021952>>, <<123096898, 663867472>>, <<117536664, 731058416>>, <<111389412, 561606496>>, <<104683117, 88751136>>, <<97443207, 386275008>>, <<89692898, 1014956192>>, <<81453471, 43197056>>, <<72744499, 93829504>>, <<63584051, 606740152>>, <<53988857, 634001232>>, <<43974450, 592566784>>, <<33555291, 975563384>>, <<22744878, 501928120>>, <<11555835, 864152486>>, <<0, 0>>>>,
    <<<<40166335, 558159120>>, <<64542350, 105737696>>, <<82958406, 762682592>>, <<97504058, 337797984>>, <<109171703, 51127488>>, <<118545850, 641107216>>, <<126012725, 414464064>>, <<131846832, 928241088>>, <<136253420, 626405312>>, <<139391801, 418061408>>, <<141389245, 311639808>>, <<142349775, 587440352>>, <<142360011, 787838304>>, <<141493204, 197315296>>, <<139812109, 963117760>>, <<137371098, 214288768>>, <<134217728, 0>>, <<130393952, 747520384>>, <<125937056, 581412048>>, <<120880393, 393993824>>, <<115253977, 229537968>>, <<109084960, 244311904>>, <<102398023, 533097264>>, <<95215699, 859074224>>, <<87558642, 515940592>>, <<79445851, 249289648>>, <<70894863, 115514032>>, <<61921915, 205146768>>, <<52542084, 7039944>>, <<42769405, 726171160>>, <<32616980, 45414068>>, <<22097061, 365416296>>, <<11221137, 568853406>>, <<0, 0>>>>,
    <<<<39339469, 325395240>>, <<63339769, 742825496>>, <<81550396, 673330672>>, <<96001201, 595979200>>, <<107656228, 407466208>>, <<117083286, 549024544>>, <<124657565, 418823808>>, <<130645727, 486356640>>, <<135247156, 37684960>>, <<138616612, 201365664>>, <<140877729, 678805024>>, <<142131559, 576517344>>, <<142462246, 677086528>>, <<141940948, 408150880>>, <<140628628, 781865152>>, <<138578103, 635251584>>, <<135835573, 56877152>>, <<132441791, 903685056>>, <<128432978, 1016359616>>, <<123841535, 249339680>>, <<118696617, 210227808>>, <<113024601, 222511520>>, <<106849463, 194194400>>, <<100193092, 109971216>>, <<93075551, 234748368>>, <<85515297, 403144592>>, <<77529366, 608584752>>, <<69133531, 1031050160>>, <<60342439, 345682016>>, <<51169723, 796771856>>, <<41628110, 838998616>>, <<31729504, 595579736>>, <<21485064, 852492924>>, <<10905274, 604607738>>, <<0, 0>>>>,
    <<<<38549754, 932006936>>, <<62186428, 909576704>>, <<80194253, 682182528>>, <<94546695, 984020880>>, <<106181020, 640914624>>, <<115649264, 648537168>>, <<123316195, 481428048>>, <<129441068, 297776720>>, <<134217728, 0>>, <<137796636, 804610656>>, <<140297993, 1049305696>>, <<141820043, 939160416>>, <<142444593, 877106272>>, <<142240824, 724246752>>, <<141268006, 1017228768>>, <<139577489, 476248768>>, <<137214188, 976983200>>, <<134217728, 0>>, <<130623319, 665542848>>, <<126462464, 654784112>>, <<121763509, 606059728>>, <<116552098, 189737008>>, <<110851540, 390116848>>, <<104683117, 88751136>>, <<98066334, 288841776>>, <<91019136, 83947472>>, <<83558085, 302808160>>, <<75698516, 971274944>>, <<67454669, 950421408>>, <<58839800, 602801792>>, <<49866281, 6807240>>, <<40545684, 713888272>>, <<30888861, 296790480>>, <<20906002, 760919932>>, <<10606701, 43103262>>, <<0, 0>>>>,
    <<<<37794648, 397961864>>, <<61079272, 99442536>>, <<78887177, 733280752>>, <<93138494, 953406352>>, <<104745157, 139737568>>, <<114244281, 450859776>>, <<121990776, 737073008>>, <<128236891, 194629776>>, <<133171230, 818027808>>, <<136940191, 18294656>>, <<139660722, 821262432>>, <<141428414, 1017799744>>, <<142322863, 999947968>>, <<142411380, 893745024>>, <<141751634, 263672224>>, <<140393585, 186119200>>, <<138380936, 425645024>>, <<135752239, 736434048>>, <<132541756, 265712512>>, <<128780135, 587970272>>, <<124494958, 60727120>>, <<119711174, 423682832>>, <<114451464, 516071952>>, <<108736534, 120276224>>, <<102585362, 38263728>>, <<96015407, 461833296>>, <<89042785, 456123648>>, <<81682416, 626688080>>, <<73948155, 10482320>>, <<65852898, 817544920>>, <<57408685, 570384080>>, <<48626775, 1039699536>>, <<39517726, 618359808>>, <<30091453, 822269944>>, <<20357290, 398539368>>, <<10324035, 747366862>>, <<0, 0>>>>,
    <<<<37071837, 257872520>>, <<60015492, 628770488>>, <<77626553, 1031543024>>, <<91774621, 409850080>>, <<103347630, 24847872>>, <<112868562, 254678752>>, <<120682987, 262461584>>, <<127036515, 198060160>>, <<132112788, 647179936>>, <<136054350, 614823040>>, <<138975074, 278070720>>, <<140968033, 113768416>>, <<142110728, 899229760>>, <<142468701, 242359520>>, <<142098101, 290429120>>, <<141047575, 226582144>>, <<139359675, 810546144>>, <<137071940, 164105344>>, <<134217728, 0>>, <<130826882, 212417008>>, <<126926257, 445379280>>, <<122540147, 725679616>>, <<117690636, 64380768>>, <<112397883, 510100464>>, <<106680369, 244116784>>, <<100555093, 46564944>>, <<94037745, 1041643456>>, <<87142855, 993333616>>, <<79883912, 461521648>>, <<72273474, 128756400>>, <<64323261, 973506760>>, <<56044240, 114087912>>, <<47446687, 450166648>>, <<38540259, 321299560>>, <<29334042, 1050639492>>, <<19836606, 215185232>>, <<10056040, 572892854>>, <<0, 0>>>>,
    <<<<36379214, 241280784>>, <<58992507, 675284464>>, <<76409940, 259326464>>, <<90453173, 662272880>>, <<101987375, 387290272>>, <<111522118, 23079760>>, <<119394110, 75747088>>, <<125842663, 1021695504>>, <<131046713, 458173504>>, <<135145146, 664453184>>, <<138248916, 932056448>>, <<140448711, 128755040>>, <<141820043, 939160416>>, <<142426774, 426812608>>, <<142323613, 986775008>>, <<141557961, 363948672>>, <<140171278, 289727264>>, <<138200139, 503369344>>, <<135677049, 168301152>>, <<132631085, 34909856>>, <<129088413, 196855440>>, <<125072704, 762839200>>, <<120605476, 493962928>>, <<115706372, 422701120>>, <<110393397, 1062108704>>, <<104683117, 88751136>>, <<98590818, 415102800>>, <<92130657, 330520224>>, <<85315777, 518192736>>, <<78158415, 569426064>>, <<70669991, 886963424>>, <<62861189, 590238144>>, <<54742023, 907719880>>, <<46321902, 634518224>>, <<37609680, 13649104>>, <<28613704, 180783404>>, <<19341859, 161425544>>, <<9801602, 777111800>>, <<0, 0>>>>,
    <<<<35714854, 938189984>>, <<58007936, 1017386512>>, <<75235054, 804741296>>, <<89172328, 316786096>>, <<100663296, 0>>, <<110204791, 106244032>>, <<118125104, 377352096>>, <<124657565, 418823808>>, <<129976634, 679705248>>, <<134217728, 0>>, <<137489024, 1071228544>>, <<139878945, 427236448>>, <<141461115, 900268192>>, <<142297799, 110459072>>, <<142442338, 688275008>>, <<141940948, 408150880>>, <<140834053, 421324736>>, <<139157314, 70920320>>, <<136942422, 17673312>>, <<134217728, 0>>, <<131008743, 1021899440>>, <<127338549, 209721808>>, <<123228122, 704195760>>, <<118696617, 210227808>>, <<113761588, 167570592>>, <<108439185, 297297776>>, <<102744315, 56785248>>, <<96690779, 6169808>>, <<90291392, 194159552>>, <<83558085, 302808160>>, <<76501993, 187919360>>, <<69133531, 1031050160>>, <<61462466, 432923360>>, <<53497969, 198404328>>, <<45248673, 188623968>>, <<36722717, 786085672>>, <<27927789, 906438476>>, <<18871160, 894340104>>, <<9559719, 195352218>>, <<0, 0>>>>,
    <<<<35076997, 1005739120>>, <<57059583, 413959920>>, <<74099764, 715954192>>, <<87930341, 854108656>>, <<99374279, 85515536>>, <<108916291, 934320720>>, <<116876663, 896415824>>, <<123483033, 686853152>>, <<128905606, 612782208>>, <<133276495, 773374064>>, <<136701242, 75689184>>, <<139266108, 873466080>>, <<141042926, 875426944>>, <<142092440, 273879776>>, <<142466691, 561390912>>, <<142210767, 404719744>>, <<141364106, 979402912>>, <<139961500, 806543264>>, <<138033867, 583138528>>, <<135608866, 603950464>>, <<132711387, 539049040>>, <<129363946, 832287792>>, <<125587011, 671846112>>, <<121399267, 830323312>>, <<116817842, 407739472>>, <<111858491, 310468528>>, <<106535757, 454331040>>, <<100863105, 731081360>>, <<94853038, 585896624>>, <<88517195, 782327088>>, <<81866440, 551161680>>, <<74910934, 1018950096>>, <<67660205, 682976496>>, <<60123201, 570798120>>, <<52308344, 1018331672>>, <<44223576, 775044096>>, <<35876396, 380550304>>, <<27273897, 878199992>>, <<18422801, 627147180>>, <<9329483, 396047346>>, <<0, 0>>>>,
    <<<<34464028, 262820328>>, <<56145415, 781293480>>, <<73002075, 357124800>>, <<86725549, 1000150752>>, <<98119209, 476800288>>, <<107656228, 407466208>>, <<115649264, 648537168>>, <<122320536, 875429120>>, <<127836197, 851107648>>, <<132325215, 84381008>>, <<135890616, 831818688>>, <<138616612, 201365664>>, <<140573321, 992658848>>, <<141820043, 939160416>>, <<142407581, 347461728>>, <<142379947, 574855328>>, <<141775642, 621405184>>, <<140628628, 781865152>>, <<138969088, 509504288>>, <<136824022, 577806528>>, <<134217728, 0>>, <<131172185, 180851024>>, <<127707373, 1043695888>>, <<123841535, 249339680>>, <<119591388, 344978256>>, <<114972313, 1013836992>>, <<109998508, 818780816>>, <<104683117, 88751136>>, <<99038343, 761967424>>, <<93075551, 234748368>>, <<86805344, 261594960>>, <<80237642, 945188400>>, <<73381746, 971983360>>, <<66246392, 220199096>>, <<58839800, 602801792>>, <<51169723, 796771856>>, <<43243482, 740874696>>, <<35068002, 507702960>>, <<26649843, 591831472>>, <<17995229, 899960236>>, <<9110073, 1021503478>>, <<0, 0>>>>,
    <<<<33874461, 769228288>>, <<55263553, 414773272>>, <<71940120, 163398672>>, <<85556366, 729663584>>, <<96896979, 930770032>>, <<106424130, 176972912>>, <<114443204, 350630608>>, <<121171253, 185819424>>, <<126770565, 499788416>>, <<131367109, 538090848>>, <<135061517, 407275584>>, <<137936040, 54296960>>, <<140059167, 440761376>>, <<141488818, 351670848>>, <<142274614, 660813760>>, <<142459545, 1045848832>>, <<142081217, 130562528>>, <<141172800, 550103520>>, <<139763776, 771625984>>, <<137880518, 576766880>>, <<135546758, 532224>>, <<132783964, 265194896>>, <<129611652, 596693328>>, <<126047639, 583037968>>, <<122108255, 814411360>>, <<117808524, 232283488>>, <<113162311, 454400576>>, <<108182456, 4160992>>, <<102880878, 999445968>>, <<97268678, 572505312>>, <<91356212, 886510976>>, <<85153171, 218892160>>, <<78668637, 183257024>>, <<71911143, 485861728>>, <<64888720, 672906016>>, <<57608940, 201260376>>, <<50078952, 883919912>>, <<42305522, 594363800>>, <<34295057, 290109288>>, <<26053636, 154704152>>, <<17587034, 311496800>>, <<8900745, 26035234>>, <<0, 0>>>>,
    <<<<33306932, 196439140>>, <<54412252, 783329848>>, <<70912151, 226393856>>, <<84421282, 200079200>>, <<95706498, 817437296>>, <<105219467, 550400608>>, <<113258634, 628466096>>, <<120036117, 888222864>>, <<125710517, 664152720>>, <<130404939, 365906976>>, <<134217728, 0>>, <<137229265, 222285184>>, <<139506484, 288691872>>, <<141105987, 768867712>>, <<142076269, 637694080>>, <<142459342, 605091008>>, <<142291956, 741509504>>, <<141606530, 547402304>>, <<140431874, 623438240>>, <<138793762, 341362336>>, <<136715386, 418675200>>, <<134217728, 0>>, <<131319858, 964415632>>, <<128039190, 835021952>>, <<124391683, 42168896>>, <<120392017, 284545024>>, <<116053744, 873629808>>, <<111389412, 561606496>>, <<106410670, 466497008>>, <<101128364, 689710784>>, <<95552617, 807321584>>, <<89692898, 1014956192>>, <<83558085, 302808160>>, <<77156515, 604502928>>, <<70496037, 915279792>>, <<63584051, 606740152>>, <<56427544, 938206984>>, <<49033128, 75521808>>, <<41407063, 443036632>>, <<33555291, 975563384>>, <<25483457, 451469776>>, <<17196928, 446898816>>, <<8700817, 695858218>>, <<0, 0>>>>,
    <<<<32760179, 839863396>>, <<53589894, 916177048>>, <<69916530, 613771184>>, <<83318860, 305254608>>, <<94546695, 984020880>>, <<104041667, 10634960>>, <<112095587, 615450560>>, <<118915861, 777535728>>, <<124657565, 418823808>>, <<129441068, 297776720>>, <<133362529, 1017287312>>, <<136500545, 808680576>>, <<138920561, 638546720>>, <<140677922, 181020224>>, <<141820043, 939160416>>, <<142388005, 815382592>>, <<142417741, 236486144>>, <<141940948, 408150880>>, <<140985797, 605346272>>, <<139577489, 476248768>>, <<137738701, 316778720>>, <<135489948, 77978400>>, <<132849877, 762036832>>, <<129835514, 1044698848>>, <<126462464, 654784112>>, <<122745081, 1014623232>>, <<118696617, 210227808>>, <<114329338, 409762336>>, <<109654636, 702085696>>, <<104683117, 88751136>>, <<99424677, 350458432>>, <<93888576, 151387600>>, <<88083493, 341463952>>, <<82017582, 377528624>>, <<75698516, 971274944>>, <<69133531, 1031050160>>, <<62329460, 428119320>>, <<55292765, 661891208>>, <<48029570, 762313264>>, <<40545684, 713888272>>, <<32846625, 992396320>>, <<24937643, 705140276>>, <<16823736, 1071416348>>, <<8509672, 537731718>>, <<0, 0>>>>,
    <<<<32233040, 756717596>>, <<52794974, 673115504>>, <<68951722, 242369136>>, <<82247735, 739333456>>, <<93416526, 731558480>>, <<102890124, 111262848>>, <<110953998, 194540352>>, <<117811044, 264871792>>, <<123612967, 12465584>>, <<128477519, 482744000>>, <<132498770, 748249776>>, <<135753607, 549316704>>, <<138306053, 61229152>>, <<140210248, 949293824>>, <<141512580, 645691840>>, <<142253234, 249637024>>, <<142467362, 15255008>>, <<142185972, 1051988544>>, <<141436625, 59582944>>, <<140243971, 78483936>>, <<138630195, 347779200>>, <<136615366, 842917536>>, <<134217728, 0>>, <<131453933, 678473552>>, <<128339249, 208805120>>, <<124887717, 1009462464>>, <<121112302, 40954896>>, <<117025002, 871530224>>, <<112636963, 835846528>>, <<107958559, 497748400>>, <<102999472, 385429728>>, <<97768759, 1012802752>>, <<92274913, 340223840>>, <<86525908, 777460880>>, <<80529253, 9590000>>, <<74292023, 936866432>>, <<67820905, 702314704>>, <<61122221, 259219152>>, <<54201960, 666045656>>, <<47065806, 530443256>>, <<39719157, 364533480>>, <<32167148, 228714172>>, <<24414669, 615508652>>, <<16466384, 378671148>>, <<8326743, 511349988>>, <<0, 0>>>>,
    <<<<31724438, 120912536>>, <<52026090, 927192192>>, <<68016284, 708346496>>, <<81206611, 3893152>>, <<92314974, 998614464>>, <<101764213, 251568880>>, <<109833722, 330200256>>, <<116722080, 601771152>>, <<122577764, 1014382560>>, <<127516023, 55355408>>, <<131628922, 586484688>>, <<134991714, 320373216>>, <<137667059, 296707680>>, <<139707947, 89261248>>, <<141159776, 428920576>>, <<142061878, 244028320>>, <<142448656, 948427296>>, <<142350461, 680876448>>, <<141794264, 72240672>>, <<140804192, 521931072>>, <<139401959, 188637568>>, <<137607206, 122073088>>, <<135437787, 756332192>>, <<132910004, 275217344>>, <<130038796, 520880256>>, <<126837908, 913253344>>, <<123320027, 784918624>>, <<119496899, 109985776>>, <<115379429, 414870576>>, <<110977772, 400929728>>, <<106301404, 585118976>>, <<101359190, 716512368>>, <<96159441, 192442784>>, <<90709962, 663193760>>, <<85018102, 114396464>>, <<79090786, 813459184>>, <<72934558, 740942624>>, <<66555606, 281554816>>, <<59959792, 14329600>>, <<53152677, 792560888>>, <<46139547, 56167552>>, <<38925425, 811341024>>, <<31515100, 273208756>>, <<23913134, 289837328>>, <<16123884, 28444222>>, <<8151512, 96239036>>, <<0, 0>>>>,
    <<<<31233374, 81067144>>, <<51281937, 520048232>>, <<67108864, 0>>, <<80194253, 682182528>>, <<91241055, 75350224>>, <<100663296, 0>>, <<108734552, 62036448>>, <<115649264, 648537168>>, <<121552817, 344137504>>, <<126558056, 866528336>>, <<130755132, 700546992>>, <<134217728, 0>>, <<137007198, 409263136>>, <<139175429, 481986816>>, <<140766874, 83785280>>, <<141820043, 939160416>>, <<142368626, 428337728>>, <<142442338, 688275008>>, <<142067590, 301058624>>, <<141268006, 1017228768>>, <<140064848, 631182880>>, <<138477347, 1043180096>>, <<136522987, 575526880>>, <<134217728, 0>>, <<131576198, 874307216>>, <<128611858, 102698416>>, <<125337127, 991083168>>, <<121763509, 606059728>>, <<117901682, 240916976>>, <<113761588, 167570592>>, <<109352506, 444813904>>, <<104683117, 88751136>>, <<99761557, 500167008>>, <<94595471, 498761488>>, <<89192053, 147767312>>, <<83558085, 302808160>>, <<77699973, 776086160>>, <<71623777, 960031184>>, <<65335238, 213654344>>, <<58839800, 602801792>>, <<52142638, 560251512>>, <<45248673, 188623968>>, <<38162591, 228356184>>, <<30888861, 296790480>>, <<23431748, 898301532>>, <<15795329, 793139810>>, <<7983502, 616840175>>, <<0, 0>>>>,
    <<<<30758922, 423202296>>, <<50561295, 605360512>>, <<66228187, 746498472>>, <<79209492, 728632864>>, <<90193813, 324582784>>, <<99586727, 769864688>>, <<107656228, 407466208>>, <<114592788, 493089392>>, <<120538824, 670170128>>, <<125604880, 517686960>>, <<129879265, 896100496>>, <<133434160, 93464880>>, <<136329666, 662860512>>, <<138616612, 201365664>>, <<140338542, 505689856>>, <<141533183, 131567936>>, <<142233534, 216003872>>, <<142468706, 244685312>>, <<142264569, 976119328>>, <<141644268, 772416768>>, <<140628628, 781865152>>, <<139236490, 214457920>>, <<137484978, 845183552>>, <<135389729, 515626208>>, <<132965073, 181963136>>, <<130224193, 339631568>>, <<127179258, 523760000>>, <<123841535, 249339680>>, <<120221484, 870918256>>, <<116328846, 616943936>>, <<112172710, 224316272>>, <<107761578, 701397856>>, <<103103423, 155334256>>, <<98205731, 629225600>>, <<93075551, 234748368>>, <<87719526, 445544416>>, <<82143932, 288776960>>, <<76354704, 593626576>>, <<70357466, 556881088>>, <<64157552, 1018919152>>, <<57760031, 860851736>>, <<51169723, 796771856>>, <<44391219, 872699416>>, <<37428897, 494655088>>, <<30286935, 112894096>>, <<22969325, 441320508>>, <<15479887, 437103624>>, <<7822277, 614903583>>, <<0, 0>>>>,
    <<<<30300222, 212613780>>, <<49863026, 167529528>>, <<65373058, 747965344>>, <<78251215, 893404800>>, <<89172328, 316786096>>, <<98533862, 722836576>>, <<106598451, 616533200>>, <<113552758, 756017456>>, <<119536352, 426784384>>, <<124657565, 418823808>>, <<129002941, 308371728>>, <<132643215, 973226768>>, <<135637290, 598965568>>, <<138034975, 502921920>>, <<139878945, 427236448>>, <<141206171, 524192416>>, <<142048993, 855786752>>, <<142435940, 681770080>>, <<142392365, 315982656>>, <<141940948, 408150880>>, <<141102099, 472983904>>, <<139894281, 1003290528>>, <<138334279, 1937984>>, <<136437412, 1001560704>>, <<134217728, 0>>, <<131688143, 1069082128>>, <<128860586, 123985504>>, <<125746095, 619296768>>, <<122354924, 446498752>>, <<118696617, 210227808>>, <<114780081, 868868736>>, <<110613651, 146441728>>, <<106205136, 1062737344>>, <<101561877, 551932272>>, <<96690779, 6169808>>, <<91598352, 1019942800>>, <<86290748, 1007783568>>, <<80773784, 30669904>>, <<75052969, 7283232>>, <<69133531, 1031050160>>, <<63020439, 523695808>>, <<56718415, 903018112>>, <<50231960, 259906584>>, <<43565362, 632191488>>, <<36722717, 786085672>>, <<29707938, 519272040>>, <<22524767, 527763392>>, <<15176788, 113335822>>, <<7667434, 360872833>>, <<0, 0>>>>,
    <<<<29856472, 237866956>>, <<49186063, 875755376>>, <<64542350, 105737696>>, <<77318366, 404070048>>, <<88175711, 436631216>>, <<97504058, 337797984>>, <<105560890, 52463424>>, <<112529210, 260742304>>, <<118545850, 641107216>>, <<123717019, 725886112>>, <<128127564, 162785312>>, <<131846832, 928241088>>, <<134932572, 211772704>>, <<137433615, 757593440>>, <<139391801, 418061408>>, <<140843375, 500430848>>, <<141820043, 939160416>>, <<142349775, 587440352>>, <<142457426, 700376256>>, <<142165233, 83277728>>, <<141493204, 197315296>>, <<140459441, 430839424>>, <<139080398, 847037824>>, <<137371098, 214288768>>, <<135345308, 567121824>>, <<133015696, 255115360>>, <<130393952, 747520384>>, <<127490902, 673036400>>, <<124316597, 48812144>>, <<120880393, 393993824>>, <<117191024, 879658480>>, <<113256660, 958754176>>, <<109084960, 244311904>>, <<104683117, 88751136>>, <<100057902, 362101104>>, <<95215699, 859074224>>, <<90162538, 518661568>>, <<84904121, 411225760>>, <<79445851, 249289648>>, <<73792853, 650791952>>, <<67949997, 772313072>>, <<61921915, 205146768>>, <<55713017, 25142568>>, <<49327508, 1072216424>>, <<42769405, 726171160>>, <<36042543, 157151056>>, <<29150590, 721242004>>, <<22097061, 365416296>>, <<14885321, 890166840>>, <<7518601, 397361966>>, <<0, 0>>>>,
    <<<<29426925, 725595812>>, <<48529410, 790427424>>, <<63735000, 217787776>>, <<76409940, 259326464>>, <<87203106, 597724736>>, <<96496678, 600766608>>, <<104543187, 648031408>>, <<111522118, 23079760>>, <<117567670, 145073472>>, <<122784010, 39112112>>, <<127254352, 784449760>>, <<131046713, 458173504>>, <<134217728, 0>>, <<136815290, 965680736>>, <<138880435, 588110464>>, <<140448711, 128755040>>, <<141551213, 886159648>>, <<142215374, 785720064>>, <<142465572, 5312352>>, <<142323613, 986775008>>, <<141809125, 42256672>>, <<140939858, 742944256>>, <<139731952, 549051360>>, <<138200139, 503369344>>, <<136357923, 722253856>>, <<134217728, 0>>, <<131791018, 1057834432>>, <<129088413, 196855440>>, <<126119768, 345374144>>, <<122894261, 928434384>>, <<119420459, 100609856>>, <<115706372, 422701120>>, <<111759513, 131705840>>, <<107586937, 203004368>>, <<103195285, 281987744>>, <<98590818, 415102800>>, <<93779449, 676784144>>, <<88766772, 341006800>>, <<83558085, 302808160>>, <<78158415, 569426064>>, <<72572538, 685340336>>, <<66804997, 167108872>>, <<60860117, 276380736>>, <<54742023, 907719880>>, <<48454654, 296623904>>, <<42001770, 932911704>>, <<35386972, 347196312>>, <<28613704, 180783404>>, <<21685268, 361790604>>, <<14604831, 1031530116>>, <<7375435, 493997670>>, <<0, 0>>>>,
    <<<<29010885, 691903020>>, <<47892131, 472138448>>, <<62950007, 1045079952>>, <<75524983, 194683536>>, <<86253689, 891620960>>, <<95511096, 428898976>>, <<103544969, 536306800>>, <<110531406, 1037664032>>, <<116602077, 43352576>>, <<121859180, 446129440>>, <<126384362, 2622880>>, <<130244353, 756501552>>, <<133494722, 854230368>>, <<136182460, 59649632>>, <<138347824, 742942848>>, <<140025695, 150696512>>, <<141246580, 954845312>>, <<142037395, 471631456>>, <<142422056, 1063577088>>, <<142421962, 365517632>>, <<142056365, 836967680>>, <<141342685, 714320544>>, <<140296755, 159675904>>, <<138933029, 236668448>>, <<137264757, 208568704>>, <<135304127, 594200352>>, <<133062390, 518072240>>, <<130549962, 240854944>>, <<127776514, 548902608>>, <<124751051, 695773808>>, <<121481977, 329529744>>, <<117977152, 747097184>>, <<114243947, 482108624>>, <<110289284, 369985360>>, <<106119678, 812402496>>, <<101741273, 639373712>>, <<97159870, 389892656>>, <<92380956, 911597440>>, <<87409731, 975672912>>, <<82251127, 751294528>>, <<76909829, 743723008>>, <<71390294, 782527024>>, <<65696767, 383512120>>, <<59833294, 699306984>>, <<53803739, 728035784>>, <<47611793, 825833832>>, <<41260987, 778167936>>, <<34754702, 68151328>>, <<28096176, 448593040>>, <<21288518, 174026084>>, <<14334710, 376226774>>, <<7237619, 33621762>>, <<0, 0>>>>,
    <<<<28607700, 1011543372>>, <<47273347, 1028881352>>, <<62186428, 909576704>>, <<74662588, 69351920>>, <<85326668, 946647712>>, <<94546695, 984020880>>, <<102565847, 546992304>>, <<109556960, 456849568>>, <<115649264, 648537168>>, <<120943068, 143493936>>, <<125518503, 1054743296>>, <<129441068, 297776720>>, <<132765299, 288698752>>, <<135537317, 576997824>>, <<137796636, 804610656>>, <<139577489, 476248768>>, <<140909820, 126535328>>, <<141820043, 939160416>>, <<142331635, 1057233184>>, <<142465597, 8610336>>, <<142240824, 724246752>>, <<141674414, 836903712>>, <<140781907, 286953824>>, <<139577489, 476248768>>, <<138074165, 284020064>>, <<136283897, 537629280>>, <<134217728, 0>>, <<131885880, 120022048>>, <<129297846, 496325088>>, <<126462464, 654784112>>, <<123387982, 647659824>>, <<120082116, 77596816>>, <<116552098, 189737008>>, <<112804723, 531448128>>, <<108846386, 801023040>>, <<104683117, 88751136>>, <<100320608, 613793824>>, <<95764247, 404433072>>, <<91019136, 83947472>>, <<86090115, 534207472>>, <<80981784, 362126832>>, <<75698516, 971274944>>, <<70244479, 156506464>>, <<64623643, 202383440>>, <<58839800, 602801792>>, <<52896574, 255761936>>, <<46797429, 680620880>>, <<40545684, 713888272>>, <<34144518, 1041940056>>, <<27596982, 408967284>>, <<20906002, 760919932>>, <<14074392, 995722136>>, <<7104857, 857725968>>, <<0, 0>>>>,
    <<<<28216762, 409974568>>, <<46672235, 488065304>>, <<61443370, 939584864>>, <<73821892, 312362928>>, <<84421282, 200079200>>, <<93602873, 883518208>>, <<101605424, 125052032>>, <<108598627, 370932320>>, <<114709363, 873996224>>, <<120036117, 888222864>>, <<124657565, 418823808>>, <<128638011, 849475216>>, <<132031003, 725927072>>, <<134881823, 74400832>>, <<137229265, 222285184>>, <<139106940, 234277632>>, <<140544248, 166738912>>, <<141567123, 908521568>>, <<142198615, 792676832>>, <<142459342, 605091008>>, <<142367858, 490267808>>, <<141940948, 408150880>>, <<141193869, 788261568>>, <<140140551, 937569856>>, <<138793762, 341362336>>, <<137165246, 358589792>>, <<135265845, 8939040>>, <<133105595, 871137104>>, <<130693818, 833124400>>, <<128039190, 835021952>>, <<125149809, 967185488>>, <<122033251, 527122992>>, <<118696617, 210227808>>, <<115146578, 60161776>>, <<111389412, 561606496>>, <<107431040, 138101344>>, <<103277051, 441349696>>, <<98932734, 648269904>>, <<94403099, 550859920>>, <<89692898, 1014956192>>, <<84806647, 1063252928>>, <<79748641, 453425984>>, <<74522969, 475920032>>, <<69133531, 1031050160>>, <<63584051, 606740152>>, <<57878085, 385645856>>, <<52019035, 805280328>>, <<46010160, 352378640>>, <<39854580, 989327384>>, <<33555291, 975563384>>, <<27115167, 933165556>>, <<20536970, 678134400>>, <<13823355, 837986212>>, <<6976878, 720690907>>, <<0, 0>>>>,
    <<<<27837499, 434412500>>, <<46088018, 255258248>>, <<60719991, 174428976>>, <<73002075, 357124800>>, <<83536798, 201909200>>, <<92679040, 655641360>>, <<100663296, 0>>, <<107656228, 407466208>>, <<113782452, 358086896>>, <<119138693, 557210080>>, <<123802223, 12908304>>, <<127836197, 851107648>>, <<131293208, 339697488>>, <<134217728, 0>>, <<136647859, 330394144>>, <<138616612, 201365664>>, <<140152861, 742010784>>, <<141282079, 562782080>>, <<142026902, 595808704>>, <<142407581, 347461728>>, <<142442338, 688275008>>, <<142147659, 792775072>>, <<141538529, 603464160>>, <<140628628, 781865152>>, <<139430496, 822455872>>, <<137955669, 219219904>>, <<136214793, 578660480>>, <<134217728, 0>>, <<131973626, 205338560>>, <<129491010, 47221520>>, <<126777833, 36218272>>, <<123841535, 249339680>>, <<120689091, 506733168>>, <<117327053, 717063136>>, <<113761588, 167570592>>, <<109998508, 818780816>>, <<106043306, 208848848>>, <<101901174, 271267280>>, <<97577033, 303225488>>, <<93075551, 234748368>>, <<88401162, 563203072>>, <<83558085, 302808160>>, <<78550336, 701790736>>, <<73381746, 971983360>>, <<68055972, 165182064>>, <<62576505, 1053536608>>, <<56946690, 40215464>>, <<51169723, 796771856>>, <<45248673, 188623968>>, <<39186479, 264386528>>, <<32985965, 216156812>>, <<26649843, 591831472>>, <<20180722, 492978304>>, <<13581111, 697145866>>, <<6853427, 941433510>>, <<0, 0>>>>,
    <<<<27469377, 32968752>>, <<45519966, 141287808>>, <<60015492, 628770488>>, <<72202356, 433276208>>, <<82672514, 395575760>>, <<91774621, 409850080>>, <<99739056, 991920240>>, <<106729561, 94211824>>, <<112868562, 254678752>>, <<118251089, 94161232>>, <<122953057, 88627344>>, <<127036515, 198060160>>, <<130553131, 224840848>>, <<133546598, 363808976>>, <<136054350, 614823040>>, <<138108818, 791226080>>, <<139738371, 325761280>>, <<140968033, 113768416>>, <<141820043, 939160416>>, <<142314298, 941825472>>, <<142468701, 242359520>>, <<142299446, 1006108032>>, <<141821258, 68381952>>, <<141047575, 226582144>>, <<139990717, 984055264>>, <<138662019, 355493824>>, <<137071940, 164105344>>, <<135230165, 708780384>>, <<133145688, 931120704>>, <<130826882, 212417008>>, <<128281559, 636637632>>, <<125517030, 640573360>>, <<122540147, 725679616>>, <<119357347, 858735872>>, <<115974689, 132274400>>, <<112397883, 510100464>>, <<108632325, 251712016>>, <<104683117, 88751136>>, <<100555093, 46564944>>, <<96252839, 169431584>>, <<91780712, 98301424>>, <<87142855, 993333616>>, <<82343217, 369854000>>, <<77385559, 448697264>>, <<72273474, 128756400>>, <<67010393, 796079048>>, <<61599601, 329754192>>, <<56044240, 114087912>>, <<50347322, 460254696>>, <<44511737, 630642624>>, <<38540259, 321299560>>, <<32435552, 522611904>>, <<26200179, 596797752>>, <<19836606, 215185232>>, <<13347206, 833705212>>, <<6734269, 306143832>>, <<0, 0>>>>,
    <<<<27111893, 104900940>>, <<44967391, 172776296>>, <<59329120, 816918680>>, <<71421992, 271501440>>, <<81827756, 288438832>>, <<90889056, 449018800>>, <<98832300, 130888832>>, <<105818404, 394900560>>, <<111967686, 736178176>>, <<117373537, 391749744>>, <<122110562, 1032708384>>, <<126239742, 675884112>>, <<129811853, 385935120>>, <<132869835, 2598592>>, <<135450476, 155170304>>, <<137585648, 493596480>>, <<139303231, 330811008>>, <<140627818, 65384288>>, <<141581265, 4893728>>, <<142183124, 413243680>>, <<142450990, 686952032>>, <<142400780, 584393568>>, <<142046962, 346257856>>, <<141402744, 907461312>>, <<140480235, 261864736>>, <<139290571, 290537664>>, <<137844033, 286026368>>, <<136150139, 560580864>>, <<134217728, 0>>, <<132055026, 828698752>>, <<129669715, 59236160>>, <<127068976, 394783664>>, <<124259545, 32565056>>, <<121247747, 32187216>>, <<118039536, 75724784>>, <<114640525, 538049984>>, <<111056016, 745385712>>, <<107291024, 380043264>>, <<103350299, 170418784>>, <<99238348, 85975776>>, <<94959452, 718007504>>, <<90517685, 596366880>>, <<85916925, 407880544>>, <<81160870, 354224384>>, <<76253050, 482556144>>, <<71196838, 914669184>>, <<65995461, 1028730400>>, <<60652008, 926308672>>, <<55169439, 987264680>>, <<49550594, 671831792>>, <<43798198, 940168184>>, <<37914871, 692152096>>, <<31903131, 171099060>>, <<25765400, 646103872>>, <<19504013, 419333628>>, <<13121218, 84445450>>, <<6619182, 966848034>>, <<0, 0>>>>,
    <<<<26764575, 808776492>>, <<44429644, 562010176>>, <<58660161, 262977160>>, <<70660275, 86676544>>, <<81001876, 517796160>>, <<90021801, 580551376>>, <<97942620, 281904416>>, <<104922522, 246149136>>, <<111079785, 741325520>>, <<116506218, 52845568>>, <<121275161, 369449248>>, <<125446561, 196554992>>, <<129070333, 999353168>>, <<132188691, 691201920>>, <<134837799, 400303360>>, <<137048988, 637890400>>, <<138849666, 146173760>>, <<140264008, 572700288>>, <<141313501, 672918112>>, <<142017366, 287681280>>, <<142392898, 734632640>>, <<142455745, 939087648>>, <<142220130, 901069280>>, <<141699038, 611498144>>, <<140904370, 1064676704>>, <<139847077, 87809920>>, <<138537262, 1007416736>>, <<136984285, 563448224>>, <<135196833, 8260704>>, <<133182993, 1073591920>>, <<130950317, 604247248>>, <<128505865, 493223184>>, <<125856257, 933792496>>, <<123007713, 601730752>>, <<119966085, 349238176>>, <<116736891, 399241024>>, <<113325343, 234974320>>, <<109736370, 617875680>>, <<105974643, 644283312>>, <<102044592, 939342832>>, <<97950427, 410016224>>, <<93696150, 777702704>>, <<89285575, 861288272>>, <<84722338, 131069968>>, <<80009907, 962880160>>, <<75151601, 73232224>>, <<70150589, 399640352>>, <<65009909, 586030784>>, <<59732471, 823835792>>, <<54321067, 436845144>>, <<48778376, 168754032>>, <<43106972, 648794176>>, <<37309332, 314454664>>, <<31387837, 358723200>>, <<25344781, 641260924>>, <<19182375, 562726992>>, <<12902750, 643507974>>, <<6507963, 544292824>>, <<0, 0>>>>,
    <<<<26426981, 189234188>>, <<43906113, 879547896>>, <<58007936, 1017386512>>, <<69916530, 613771184>>, <<80194253, 682182528>>, <<89172328, 316786096>>, <<97069615, 61298992>>, <<104041667, 10634960>>, <<110204791, 106244032>>, <<115649264, 648537168>>, <<120447207, 210635856>>, <<124657565, 418823808>>, <<128329423, 655866448>>, <<131504290, 408929136>>, <<134217728, 0>>, <<136500545, 808680576>>, <<138379693, 739151232>>, <<139878945, 427236448>>, <<141019428, 671340544>>, <<141820043, 939160416>>, <<142297799, 110459072>>, <<142468080, 564437312>>, <<142344874, 99946848>>, <<141940948, 408150880>>, <<141268006, 1017228768>>, <<140336816, 309573856>>, <<139157314, 70920320>>, <<137738701, 316778720>>, <<136089521, 363793376>>, <<134217728, 0>>, <<132130744, 560923472>>, <<129835514, 1044698848>>, <<127338549, 209721808>>, <<124645962, 332977888>>, <<121763509, 606059728>>, <<118696617, 210227808>>, <<115450409, 927979024>>, <<112029735, 125773696>>, <<108439185, 297297776>>, <<104683117, 88751136>>, <<100765669, 393839728>>, <<96690779, 6169808>>, <<92462195, 377084416>>, <<88083493, 341463952>>, <<83558085, 302808160>>, <<78889231, 987304336>>, <<74080052, 111651648>>, <<69133531, 1031050160>>, <<64052533, 175645240>>, <<58839800, 602801792>>, <<53497969, 198404328>>, <<48029570, 762313264>>, <<42437039, 453832824>>, <<36722717, 786085672>>, <<30888861, 296790480>>, <<24937643, 705140276>>, <<18871160, 894340104>>, <<12691435, 226507244>>, <<6400419, 481087651>>, <<0, 0>>>>,
    <<<<26098691, 539069780>>, <<43396220, 550069816>>, <<57371805, 792154016>>, <<69190116, 44000128>>, <<79404291, 393818480>>, <<88340124, 98800>>, <<96212886, 612205216>>, <<103175582, 123204912>>, <<109342610, 975037920>>, <<114802770, 294771856>>, <<119626997, 639442848>>, <<123873273, 53004560>>, <<127589876, 427871120>>, <<130817635, 749147664>>, <<133591530, 277404304>>, <<135941864, 316819136>>, <<137895146, 55695328>>, <<139474759, 418673536>>, <<140701485, 747678848>>, <<141593915, 677555360>>, <<142168778, 356195680>>, <<142441207, 838827584>>, <<142424960, 699684864>>, <<142132596, 211623072>>, <<141575626, 125116704>>, <<140764640, 433286496>>, <<139709413, 868324928>>, <<138418996, 547769792>>, <<136901791, 876542176>>, <<135165623, 149955104>>, <<133217792, 33686064>>, <<131065128, 774456848>>, <<128714036, 358912736>>, <<126170529, 797881376>>, <<123440269, 908956832>>, <<120528593, 995768016>>, <<117440542, 681709264>>, <<114180884, 51967040>>, <<110754135, 221570576>>, <<107164581, 457392160>>, <<103416293, 740768272>>, <<99513144, 360344864>>, <<95458821, 268409760>>, <<91256840, 797538912>>, <<86910559, 267543024>>, <<82423183, 1064925584>>, <<77797782, 767793504>>, <<73037292, 634474048>>, <<68144528, 410064800>>, <<63122189, 1007133336>>, <<57972869, 99789192>>, <<52699056, 21661360>>, <<47303145, 106380392>>, <<41787440, 363668488>>, <<36154160, 428957856>>, <<30405443, 268230304>>, <<24543350, 525629060>>, <<18569871, 397705388>>, <<12486926, 578594304>>, <<6296371, 563945095>>, <<0, 0>>>>,
    <<<<25779312, 999137864>>, <<42899417, 647439240>>, <<56751158, 246002968>>, <<68480418, 740689168>>, <<78631417, 341338880>>, <<87524691, 734463776>>, <<95372042, 298758048>>, <<102324004, 372999680>>, <<108493132, 1073711616>>, <<113966793, 370946272>>, <<118814778, 659268336>>, <<123094133, 880101392>>, <<126852360, 20479680>>, <<130129626, 805337088>>, <<132960349, 151865392>>, <<135374342, 676725696>>, <<137397687, 975168416>>, <<139053391, 727313056>>, <<140361900, 151619680>>, <<141341504, 118429568>>, <<142008662, 963752544>>, <<142378266, 417978976>>, <<142463849, 403474944>>, <<142277768, 582550464>>, <<141831349, 983520512>>, <<141135012, 733696000>>, <<140198373, 1007017472>>, <<139030337, 952574336>>, <<137639172, 324696576>>, <<136032574, 442278112>>, <<134217728, 0>>, <<132201353, 141162208>>, <<129989749, 703317280>>, <<127588835, 460953024>>, <<125004180, 51849968>>, <<122241034, 761889472>>, <<119304358, 817748448>>, <<116198843, 407149888>>, <<112928932, 800322800>>, <<109498843, 63674992>>, <<105912579, 690014352>>, <<102173952, 403484432>>, <<98286589, 712521216>>, <<94253951, 108584480>>, <<90079338, 1060367856>>, <<85765908, 876223536>>, <<81316678, 914099376>>, <<76734538, 957279904>>, <<72022258, 322013696>>, <<67182493, 408383536>>, <<62217794, 174939288>>, <<57130610, 705381648>>, <<51923298, 668670856>>, <<46598124, 974929912>>, <<41157272, 416868760>>, <<35602844, 588949024>>, <<29936869, 791406468>>, <<24161305, 129840648>>, <<18278040, 395569568>>, <<12288901, 87909082>>, <<6195652, 1822648>>, <<0, 0>>>>,
    <<<<25468473, 1072111528>>, <<42415187, 525088560>>, <<56145415, 781293480>>, <<67786853, 1033133600>>, <<77875082, 149475488>>, <<86725549, 1000150752>>, <<94546695, 984020880>>, <<101486665, 958438352>>, <<107656228, 407466208>>, <<113141361, 793213104>>, <<118010751, 398833168>>, <<122320536, 875429120>>, <<126117465, 152372240>>, <<129441068, 297776720>>, <<132325215, 84381008>>, <<134799247, 774960768>>, <<136888832, 987064096>>, <<138616612, 201365664>>, <<140002707, 200861888>>, <<141065118, 427466784>>, <<141820043, 939160416>>, <<142282137, 167056032>>, <<142464718, 207528160>>, <<142379947, 574855328>>, <<142038971, 461770528>>, <<141452043, 730832512>>, <<140628628, 781865152>>, <<139577489, 476248768>>, <<138306762, 390301856>>, <<136824022, 577806528>>, <<135136339, 776774368>>, <<133250327, 339831552>>, <<131172185, 180851024>>, <<128907737, 218645552>>, <<126462464, 654784112>>, <<123841535, 249339680>>, <<121049829, 751058944>>, <<118091964, 776681216>>, <<114972313, 1013836992>>, <<111695026, 684498368>>, <<108264044, 588683344>>, <<104683117, 88751136>>, <<100955815, 55627568>>, <<97085543, 146633360>>, <<93075551, 234748368>>, <<88928944, 755926752>>, <<84648693, 1018382512>>, <<80237642, 945188400>>, <<75698516, 971274944>>, <<71033930, 173626144>>, <<66246392, 220199096>>, <<61338314, 166357416>>, <<56312014, 406541048>>, <<51169723, 796771856>>, <<45913590, 506836992>>, <<40545684, 713888272>>, <<35068002, 507702960>>, <<29482469, 1070343576>>, <<23790946, 977556040>>, <<17995229, 899960236>>, <<12097055, 546159276>>, <<6098103, 752503215>>, <<0, 0>>>>,
    <<<<25165824, 0>>, <<41943040, 0>>, <<55554028, 354469832>>, <<67108864, 0>>, <<77134758, 557817232>>, <<85942232, 708939664>>, <<93736468, 157795728>>, <<100663296, 0>>, <<106831753, 1053077168>>, <<112326477, 41892656>>, <<117215077, 393477200>>, <<121552817, 344137504>>, <<125385713, 590284496>>, <<128752680, 315591440>>, <<131687057, 224575376>>, <<134217728, 0>>, <<136369958, 361388992>>, <<138166035, 1032412480>>, <<139625768, 144328928>>, <<140766874, 83785280>>, <<141605298, 807192352>>, <<142155466, 786954400>>, <<142430489, 912285056>>, <<142442338, 688275008>>, <<142201985, 209463232>>, <<141719523, 106827168>>, <<141004268, 980750848>>, <<140064848, 631182880>>, <<138909271, 564960928>>, <<137544994, 449150784>>, <<135978976, 596282912>>, <<134217728, 0>>, <<132267351, 784632464>>, <<130133580, 722777968>>, <<127821810, 398731968>>, <<125337127, 991083168>>, <<122684337, 748370384>>, <<119867984, 288657856>>, <<116892372, 1010252176>>, <<113761588, 167570592>>, <<110479510, 74857504>>, <<107049829, 540642864>>, <<103476061, 509641664>>, <<99761557, 500167008>>, <<95909516, 622064496>>, <<91922995, 750828304>>, <<87804918, 826238640>>, <<83558085, 302808160>>, <<79185178, 61656480>>, <<74688770, 418926448>>, <<70071332, 667703120>>, <<65335238, 213654344>>, <<60482769, 283917776>>, <<55516121, 887759848>>, <<50437410, 587182840>>, <<45248673, 188623968>>, <<39951874, 725462648>>, <<34548911, 56180040>>, <<29041612, 989857324>>, <<23431748, 898301532>>, <<17721028, 417415832>>, <<11911105, 118823964>>, <<6003579, 201767041>>, <<0, 0>>>>
  >>

\* -p * log2(p) with p = k / n
EntropyTerm(k, n) == EntropyTerms[n][k]

\* how many low bits of <<hi, lo>> lie below the 53 significant ones
DropBits(hi) ==
  CHOOSE d \in 0..8 :
    /\ (hi \div 2^d) < MantissaTop
    /\ d = 0 \/ (hi \div 2^(d - 1)) >= MantissaTop

\* the double nearest to the exact value <<hi, lo>>, ties to even
FloatRound(hi, lo) ==
  LET d    == DropBits(hi)
      q    == lo \div 2^d
      r    == lo % 2^d
      up   == d > 0 /\ (2 * r > 2^d \/ (2 * r = 2^d /\ q % 2 = 1))
      kept == (IF up THEN q + 1 ELSE q) * 2^d
  IN  <<hi + kept \div FloatLimb, kept % FloatLimb>>

\* a + b in double precision
FloatAdd(a, b) ==
  LET lo == a[2] + b[2]
  IN  FloatRound(a[1] + b[1] + lo \div FloatLimb, lo % FloatLimb)

\* a > b for two doubles
FloatGreater(a, b) ==
  \/ a[1] > b[1]
  \/ a[1] = b[1] /\ a[2] > b[2]

\* pattern_for(guess, sol) for the candidates sol = cands[lo..hi], in their order
RECURSIVE PatternList(_, _, _, _)
PatternList(guess, cands, lo, hi) ==
  IF lo > hi THEN <<>>
  ELSE IF lo = hi THEN <<pattern_for(guess, cands[lo])>>
  ELSE PatternList(guess, cands, lo, Mid(lo, hi))
         \o PatternList(guess, cands, Mid(lo, hi) + 1, hi)

\* buckets.values() of entropy_of_guess: how many candidates produced each
\* pattern, the patterns in the order they first occurred (a dict keeps its
\* keys in insertion order); here for the patterns first met at pats[lo..hi]
RECURSIVE Buckets(_, _, _)
Buckets(pats, lo, hi) ==
  IF lo > hi THEN <<>>
  ELSE IF lo = hi
    THEN IF \E j \in 1..(lo - 1) : pats[j] = pats[lo]
           THEN <<>>
           ELSE <<Cardinality({i \in 1..Len(pats) : pats[i] = pats[lo]})>>
  ELSE Buckets(pats, lo, Mid(lo, hi)) \o Buckets(pats, Mid(lo, hi) + 1, hi)

\* ent after "ent += -p * log2(p)" for the bucket sizes k = sizes[lo..hi],
\* starting from ent
RECURSIVE EntropySum(_, _, _, _, _)
EntropySum(sizes, n, lo, hi, ent) ==
  IF lo > hi THEN ent
  ELSE IF lo = hi THEN FloatAdd(ent, EntropyTerm(sizes[lo], n))
  ELSE LET first == EntropySum(sizes, n, lo, Mid(lo, hi), ent)
       IN  Strict(first, EntropySum(sizes, n, Mid(lo, hi) + 1, hi, first))

\* the entropy of a guess: the float sum of -p * log2(p) over the buckets
entropy_of_guess(guess, cands) ==
  LET sizes == Buckets(PatternList(guess, cands, 1, Len(cands)), 1, Len(cands))
  IN  EntropySum(sizes, Len(cands), 1, Len(sizes), <<0, 0>>)

\* best_e = -1.0 before the scan
InitialBestEntropy == <<-(2^28), 0>>

\* e > best_e
EntropyGreater(e, best_e) == FloatGreater(e, best_e)

\* len(candidates) > 30
PoolThreshold == 30

\* a pool choice that switches to allowed one candidate early
SearchPoolOffByOne(cands, allowedWords) ==
  IF Len(cands) >= PoolThreshold THEN allowedWords ELSE cands

\* pool = allowed if len(candidates) > 30 else candidates
SearchPool(cands, allowedWords) ==
  IF Len(cands) > PoolThreshold THEN allowedWords ELSE cands

\* a scan that replaces the best only on a strictly greater entropy
RECURSIVE EntropyScanStrict(_, _, _, _, _)
EntropyScanStrict(pool, cands, lo, hi, best) ==
  IF lo > hi THEN best
  ELSE IF lo = hi
    THEN LET g == pool[lo]
             e == entropy_of_guess(g, cands)
         IN  IF EntropyGreater(e, best[2]) THEN <<g, e>> ELSE best
  ELSE LET first == EntropyScanStrict(pool, cands, lo, Mid(lo, hi), best)
       IN  Strict(first,
                  EntropyScanStrict(pool, cands, Mid(lo, hi) + 1, hi, first))

best_entropy_guess_strict(cands, allowedWords) ==
  LET pool == SearchPool(cands, allowedWords)
  IN  EntropyScanStrict(pool, cands, 1, Len(pool), <<None, InitialBestEntropy>>)

\* the loop of best_entropy_guess over pool[lo..hi], entered with
\* best = <<best_g, best_e>>
RECURSIVE EntropyScan(_, _, _, _, _)
EntropyScan(pool, cands, lo, hi, best) ==
  IF lo > hi THEN best
  ELSE IF lo = hi
    THEN LET g == pool[lo]
             e == entropy_of_guess(g, cands)
         IN  IF \/ EntropyGreater(e, best[2])
                \/ (e = best[2] /\ Member(g, cands) /\ ~Member(best[1], cands))
               THEN <<g, e>>
               ELSE best
  ELSE LET first == EntropyScan(pool, cands, lo, Mid(lo, hi), best)
       IN  Strict(first, EntropyScan(pool, cands, Mid(lo, hi) + 1, hi, first))

\* returns <<best_g, best_e>>; on an empty pool the loop body never runs and
\* the initial <<None, -1.0>> is returned
best_entropy_guess(cands, allowedWords) ==
  LET pool == SearchPool(cands, allowedWords)
  IN  EntropyScan(pool, cands, 1, Len(pool), <<None, InitialBestEntropy>>)

(***************************************************************************)
(* Word loading                                                            *)
(***************************************************************************)

\* the built-in list, in the order of the source
FALLBACK ==
  <<
    <<"a","r","i","s","e">>, <<"a","d","i","e","u">>,
    <<"a","l","o","n","e">>, <<"a","n","g","l","e">>,
    <<"a","p","p","l","e">>, <<"b","a","k","e","r">>,
    <<"b","a","s","i","c">>, <<"b","e","a","c","h">>,
    <<"b","e","a","s","t">>, <<"b","e","l","l","y">>,
    <<"b","r","a","v","e">>, <<"c","a","n","d","y">>,
    <<"c","a","t","e","r">>, <<"c","h","a","i","r">>,
    <<"c","r","a","n","e">>, <<"c","r","e","a","m">>,
    <<"c","r","o","w","n">>, <<"e","a","g","l","e">>,
    <<"f","a","n","c","y">>, <<"f","l","a","m","e">>,
    <<"g","l","a","r","e">>, <<"g","r","a","i","n">>,
    <<"g","r","a","p","e">>, <<"g","r","a","p","h">>,
    <<"g","r","e","a","t">>, <<"h","e","a","r","t">>,
    <<"l","i","n","e","n">>, <<"m","a","g","m","a">>,
    <<"m","a","j","o","r">>, <<"m","a","p","l","e">>,
    <<"o","c","e","a","n">>, <<"p","l","a","n","t">>,
    <<"p","r","i","d","e">>, <<"p","r","i","m","o">>,
    <<"q","u","i","e","t">>, <<"r","a","i","s","e">>,
    <<"r","a","t","i","o">>, <<"s","l","a","t","e">>,
    <<"s","t","a","r","e">>, <<"t","r","a","c","e">>
  >>

\* a path of the working directory: os.path.exists(path), and the lines that
\* "for line in f" yields when the path is a readable file of UTF-8 text
NoFile == [exists |-> FALSE, lines |-> <<>>]

File(lines) == [exists |-> TRUE, lines |-> lines]

\* a word the code accepts: five characters, all of them lower-case letters
ValidWord(w) == Len(w) = WordLen /\ Range(w) \subseteq ALPHA

\* read_file: the stripped, lower-cased lines that are valid words, in file order
read_file(lines) ==
  LET ws == [i \in 1..Len(lines) |-> lower(strip(lines[i]))]
  IN  SelectIn(ws, {i \in 1..Len(ws) : ValidWord(ws[i])}, 1, Len(ws))

\* a < b as Python compares two words of lower-case letters
RECURSIVE WordLessFrom(_, _, _)
WordLessFrom(a, b, i) ==
  IF i > Len(a) \/ i > Len(b) THEN Len(a) < Len(b)
  ELSE IF a[i] = b[i] THEN WordLessFrom(a, b, i + 1)
  ELSE Ord(a[i]) < Ord(b[i])

WordLess(a, b) == WordLessFrom(a, b, 1)

\* places lo..hi of sorted(S): the word at place k has k - 1 words of S below it
RECURSIVE SortedPlaces(_, _, _)
SortedPlaces(S, lo, hi) ==
  IF lo > hi THEN <<>>
  ELSE IF lo = hi
    THEN <<CHOOSE w \in S : Cardinality({v \in S : WordLess(v, w)}) = lo - 1>>
  ELSE SortedPlaces(S, lo, Mid(lo, hi)) \o SortedPlaces(S, Mid(lo, hi) + 1, hi)

\* sorted(S) for a set of words
SortWords(S) == SortedPlaces(S, 1, Cardinality(S))

\* what load_words holds at line 53: (answers, allowed) from the files, or the fallback
LoadedLists(files) ==
  IF files.words.exists
    THEN LET ws == read_file(files.words.lines)
         IN  <<SelectIn(ws, {i \in 1..Len(ws) : Len(ws[i]) = WordLen}, 1, Len(ws)),
               SortWords(Range(ws))>>
    ELSE LET ans == IF files.answers.exists
                      THEN read_file(files.answers.lines) ELSE <<>>
             alw == IF files.allowed.exists
                      THEN read_file(files.allowed.lines) ELSE <<>>
         IN  IF ans = <<>> /\ alw = <<>>
               THEN <<FALLBACK, SortWords(Range(FALLBACK))>>
               ELSE <<ans, alw>>

\* returns <<answers, allowed>>: the answers keep their file order and their
\* repetitions, allowed is the sorted set union of both lists
load_words(files) ==
  LET loaded  == LoadedLists(files)
      merged  == SortWords(Range(loaded[2]) \cup Range(loaded[1]))
      ans     == SelectIn(loaded[1],
                   {i \in 1..Len(loaded[1]) : ValidWord(loaded[1][i])},
                   1, Len(loaded[1]))
      alw     == SelectIn(merged, {i \in 1..Len(merged) : ValidWord(merged[i])},
                          1, Len(merged))
  IN  <<IF ans = <<>> THEN alw ELSE ans, alw>>

(***************************************************************************)
(* The GUI session                                                         *)
(***************************************************************************)

\* _refresh_recommendation: the texts of ent_guess_var and like_guess_var
\* (ent_bits_var, the entropy printed with two decimals, is not modelled)
refresh_recommendation(cands, allowedWords) ==
  IF cands = <<>>
    THEN [ent_guess |-> Dash, like_guess |-> Dash]
    ELSE LET ent_g  == best_entropy_guess(cands, allowedWords)[1]
             like_g == best_likelihood_guess(cands)[1]
         IN  [ent_guess  |-> ent_g,
              like_guess |-> IF like_g # ent_g THEN like_g ELSE Dash]

\* len(guess) != 5 or set(guess) - ALPHA
InvalidGuess(guess) == Len(guess) # WordLen \/ Range(guess) \ ALPHA # {}

\* self.pattern_states
pattern_states == <<"N", "P", "C">>

\* len(pat) != 5 or any(ch not in "CNP" for ch in pat)
InvalidPattern(pat) ==
  Len(pat) # WordLen \/ \E i \in 1..Len(pat) : pat[i] \notin {"C", "N", "P"}

\* ---- inputs of the session ----

Crane == <<"c","r","a","n","e">>
Slate == <<"s","l","a","t","e">>
Grape == <<"g","r","a","p","e">>
Trace == <<"t","r","a","c","e">>

\* the files of the working directory the program may be started in
FileInputs ==
  { \* no word file: the built-in list
    [words |-> NoFile, answers |-> NoFile, allowed |-> NoFile],
    \* answers.txt repeats a word, holds a line that is no word, a form feed
    \* and a no-break space
    [words   |-> NoFile,
     answers |-> File(<< <<"c","r","a","n","e","\f","\n">>, <<"s","l","a","t","e","\n">>,
                         <<"C","r","a","n","e","\n">>, <<"g","r","a","p","e","s","\n">>,
                         <<"g","r","a","p","e"," ","\n">>, <<"t","r","a","c","e">> >>),
     allowed |-> File(<< <<"a","r","i","s","e","\n">>, <<"c","r","a","n","e","\n">> >>)],
    \* words.txt alone, with a repeated word, a file separator (U+001C), a next
    \* line (U+0085) and a vertical tab
    [words   |-> File(<< <<"t","r","a","c","e","\n">>, <<"g","r","a","p","e","\n">>,
                         <<" ","c","r","a","n","e","\n">>,
                         <<"G","R","A","P","E","","","\n">>,
                         <<"c","r","a","t","e","\n">>, <<"","\n">> >>),
     answers |-> NoFile,
     allowed |-> NoFile] }

\* what the user may do between two presses of "Apply Feedback": type a text
\* into the guess entry, click the five pattern buttons, press "Reset Feedback"
\* or "Use Recommended"

\* texts that are a word once stripped and lower-cased
WordTexts ==
  { <<"C","r","a","n","e"," ">>,          \* normalised to "crane"
    <<" ","S","L","A","T","E","\r">> }    \* normalised to "slate"

\* texts the handler rejects
RejectedTexts ==
  { <<"c","r","a","n">>,                  \* too short
    <<"É","l","i","t","e">> }             \* a letter outside a-z once lower-cased

\* the texts the user types
TypedTexts == WordTexts \cup RejectedTexts

\* the word the user is playing against
Solutions == {Crane}

\* patterns the user clicks the buttons to: the true feedback of a typed word
\* against a solution
FeedbackInputs ==
  { pattern_for(lower(strip(t)), sol) : t \in WordTexts, sol \in Solutions }

\* the letters a button shows on its way from "N" to the letter aimed at
OnTheWay(letter) ==
  {pattern_states[k] : k \in 1..(CHOOSE m \in 1..Len(pattern_states) :
                                    pattern_states[m] = letter)}

\* what the buttons show while the user clicks them, left to right, to one of
\* FeedbackInputs: the buttons before the one being clicked show the pattern,
\* those after it were not clicked yet
ClickPatterns ==
  { p \in [1..WordLen -> Range(pattern_states)] :
      \E target \in FeedbackInputs :
        \E i \in 1..WordLen :
          /\ \A j \in 1..(i - 1) : p[j] = target[j]
          /\ p[i] \in OnTheWay(target[i])
          /\ \A j \in (i + 1)..WordLen : p[j] = "N" }

\* what the buttons show when the user presses "Apply Feedback": a finished
\* pattern, or the untouched buttons
ApplyPatterns == FeedbackInputs \cup {AllAbsent}

\* the session stops being followed after this turn number is reached
MaxTurn == 3

\* ... and after this many different (guess, pattern) pairs were accepted
MaxAccepted == 2

\* ---- the session ----
\* (_show_more and _copy_all change none of the variables)

\* WordleGUI.__init__: the lists are loaded (lw), the widgets are built, the
\* recommendation is computed (rec) and the recommended guess is pre-filled
InitSession ==
  \E files \in FileInputs :
  \E lw \in {load_words(files)} :
  \E rec \in {refresh_recommendation(lw[1], lw[2])} :
        /\ answers = lw[1]
        /\ allowed = lw[2]
        /\ candidates = lw[1]
        /\ turn = 1
        /\ pattern_buttons = AllAbsent
        /\ ent_guess_var = rec.ent_guess
        /\ like_guess_var = rec.like_guess
        /\ guess_entry = IF lw[1] = <<>> THEN <<>> ELSE rec.ent_guess
        /\ signal = "none"
        /\ accepted = {}
        /\ fn = "session"
        /\ args = files
        /\ ret = <<>>

\* the user replaces the text of the guess entry (self.guess_entry, a ttk.Entry)
TypeGuess(text) ==
  /\ turn < MaxTurn
  /\ guess_entry' = text
  /\ UNCHANGED <<answers, allowed, candidates, turn, pattern_buttons,
                 ent_guess_var, like_guess_var, signal, accepted,
                 fn, args, ret>>

\* self.pattern_states[(idx + 1) % 3] for idx = self.pattern_states.index(curr);
\* the places of pattern_states are counted from 1 here
NextPatternState(curr) ==
  LET idx == CHOOSE k \in 1..Len(pattern_states) : pattern_states[k] = curr
  IN  pattern_states[(idx % Len(pattern_states)) + 1]

\* WordleGUI._cycle_pattern(i), for the button at place i (counted from 1); the
\* clicks are followed while the buttons show one of ClickPatterns
CyclePattern(i) ==
  \E nxt \in {NextPatternState(pattern_buttons[i])} :
      /\ turn < MaxTurn
      /\ [pattern_buttons EXCEPT ![i] = nxt] \in ClickPatterns
      /\ pattern_buttons' = [pattern_buttons EXCEPT ![i] = nxt]
      /\ UNCHANGED <<answers, allowed, candidates, turn, guess_entry,
                     ent_guess_var, like_guess_var, signal, accepted,
                     fn, args, ret>>

\* WordleGUI._reset_pattern
ResetPattern ==
  /\ turn < MaxTurn
  /\ pattern_buttons' = AllAbsent
  /\ UNCHANGED <<answers, allowed, candidates, turn, guess_entry,
                 ent_guess_var, like_guess_var, signal, accepted,
                 fn, args, ret>>

\* WordleGUI._use_recommended
UseRecommended ==
  /\ turn < MaxTurn
  /\ guess_entry' = IF ent_guess_var # <<>> /\ ent_guess_var # Dash
                      THEN ent_guess_var
                      ELSE guess_entry
  /\ UNCHANGED <<answers, allowed, candidates, turn, pattern_buttons,
                 ent_guess_var, like_guess_var, signal, accepted,
                 fn, args, ret>>

\* a turn counter that also counts the terminal applications
TurnAfterCountingAll(t, pat, after) == t + 1

\* self.turn after an accepted application that left `after` candidates: the two
\* terminal paths return before "self.turn += 1"
TurnAfter(t, pat, after) ==
  IF pat = AllCorrect THEN t
  ELSE IF after = 0 THEN t
  ELSE t + 1

\* WordleGUI._apply_feedback: guess and pat are the handler's locals of these
\* names, read from the guess entry and the pattern buttons; new is the
\* filtered list assigned to self.candidates, rec what _refresh_recommendation
\* shows on the paths that call it
ApplyFeedback ==
  \E guess \in {lower(strip(guess_entry))} :
  \E pat \in {pattern_buttons} :
      /\ turn < MaxTurn
      /\ pat \in ApplyPatterns
      /\ (~InvalidGuess(guess) /\ ~InvalidPattern(pat))
            => Cardinality(accepted \cup {<<guess, pat>>}) <= MaxAccepted
      /\ UNCHANGED <<answers, allowed, guess_entry, fn, args, ret>>
      /\ IF InvalidGuess(guess)
           THEN /\ signal' = "Invalid guess"
                /\ UNCHANGED <<candidates, turn, pattern_buttons, ent_guess_var,
                               like_guess_var, accepted>>
         ELSE IF InvalidPattern(pat)
           THEN /\ signal' = "Invalid pattern"
                /\ UNCHANGED <<candidates, turn, pattern_buttons, ent_guess_var,
                               like_guess_var, accepted>>
         ELSE \E new \in {filter_candidates(candidates, guess, pat)} :
              /\ candidates' = new
              /\ accepted' = accepted \cup {<<guess, pat>>}
              /\ turn' = TurnAfter(turn, pat, Len(new))
              /\ IF pat = AllCorrect
                   THEN \E rec \in {refresh_recommendation(new, allowed)} :
                        /\ ent_guess_var' = rec.ent_guess
                        /\ like_guess_var' = rec.like_guess
                        /\ signal' = "Solved"
                        /\ UNCHANGED pattern_buttons
                 ELSE IF Len(new) = 0
                   THEN /\ signal' = "No candidates"
                        /\ UNCHANGED <<pattern_buttons, ent_guess_var,
                                       like_guess_var>>
                 ELSE \E rec \in {refresh_recommendation(new, allowed)} :
                      /\ ent_guess_var' = rec.ent_guess
                      /\ like_guess_var' = rec.like_guess
                      /\ signal' = "none"
                      /\ pattern_buttons' = AllAbsent

Init == InitSession

Next ==
  \/ \E text \in TypedTexts : TypeGuess(text)
  \/ \E i \in 1..WordLen : CyclePattern(i)
  \/ ResetPattern
  \/ UseRecommended
  \/ ApplyFeedback

Spec == Init /\ [][Next]_vars

(***************************************************************************)
(* Direct calls of the module's functions                                  *)
(*                                                                         *)
(* No GUI is built: the session variables hold None throughout.            *)
(***************************************************************************)

NoSession ==
  /\ answers = <<>> /\ allowed = <<>> /\ candidates = <<>> /\ turn = 0
  /\ guess_entry = <<>> /\ pattern_buttons = <<>> /\ ent_guess_var = <<>>
  /\ like_guess_var = <<>> /\ signal = "none"
  /\ accepted = {}

\* fn before the call
NotCalled == "not called"

\* ret before the call returned
NoResult == <<>>

\* ---- pattern_for(guess, solution) ----

\* the words are drawn over this many letters of the alphabet ...
NumLetters == 2

\* ... and from the duplicate-letter fixtures
Sassy == <<"s","a","s","s","y">>
Class == <<"c","l","a","s","s">>
Alert == <<"a","l","e","r","t">>
Level == <<"l","e","v","e","l">>

PatternWords ==
  [1..WordLen -> {AlphaSeq[i] : i \in 1..NumLetters}]
  \cup {Sassy, Class, Alert, Level, Crane, Grape}

InitPattern ==
  /\ NoSession
  /\ fn = NotCalled
  /\ args \in [guess : PatternWords, solution : PatternWords]
  /\ ret = NoResult

CallPatternFor ==
  /\ fn = NotCalled
  /\ fn' = "pattern_for"
  /\ ret' = pattern_for(args.guess, args.solution)
  /\ UNCHANGED <<sessionVars, args>>

NextPattern == CallPatternFor

SpecPattern == InitPattern /\ [][NextPattern]_vars

\* ---- filter_candidates(cands, guess, pat), applied to its own result ----

\* candidate lists of up to this many words, repetitions included
MaxFilterLen == 3

\* the filter is applied up to this many times in a row
MaxFilterCalls == 2

FilterWords == {Crane, Slate, Grape, Trace}

FilterLists == UNION {[1..n -> FilterWords] : n \in 0..MaxFilterLen}

FilterPatterns ==
  {pattern_for(g, sol) : g \in FilterWords, sol \in FilterWords} \cup {AllAbsent}

InitFilter ==
  /\ NoSession
  /\ fn = "filter_candidates"
  /\ args \in [cands : FilterLists, guess : FilterWords, pat : FilterPatterns]
  /\ ret = <<>>

\* ret is the list of the results: ret[1] = filter_candidates(cands, guess, pat),
\* ret[k + 1] = filter_candidates(ret[k], guess, pat); the argument list is left
\* as it was (the comprehension builds a new list)
CallFilter ==
  /\ fn = "filter_candidates"
  /\ Len(ret) < MaxFilterCalls
  /\ ret' = Append(ret, filter_candidates(
                          IF ret = <<>> THEN args.cands ELSE ret[Len(ret)],
                          args.guess, args.pat))
  /\ UNCHANGED <<sessionVars, fn, args>>

NextFilter == CallFilter

SpecFilter == InitFilter /\ [][NextFilter]_vars

\* ---- best_entropy_guess(candidates, allowed), best_likelihood_guess(candidates) ----

\* candidate lists are runs of consecutive words of FALLBACK: short ones, of up
\* to this many words ...
MaxShortRun == 2

\* ... and long ones, of PoolThreshold - ThresholdWindow + 1 to
\* PoolThreshold + ThresholdWindow words
ThresholdWindow == 2

ScoreRunLengths ==
  (0..MaxShortRun)
  \cup ((PoolThreshold - ThresholdWindow + 1)..(PoolThreshold + ThresholdWindow))

\* seven words of which "alone" and "baker" split the list into buckets of the
\* same sizes, met in a different order: the two sums of the same terms round
\* to different doubles
RoundingCandidates ==
  << <<"p","l","a","n","t">>, <<"f","a","n","c","y">>, <<"a","l","o","n","e">>,
     <<"m","a","g","m","a">>, <<"b","a","k","e","r">>, <<"c","h","a","i","r">>,
     <<"a","d","i","e","u">> >>

ScoreCandidates ==
  { SubSeq(FALLBACK, run[1], run[1] + run[2] - 1) :
      run \in { r \in (1..Len(FALLBACK)) \X ScoreRunLengths :
                   r[1] + r[2] - 1 <= Len(FALLBACK) } }
  \cup {RoundingCandidates}

\* reversed(s)
Reversed(s) == [i \in 1..Len(s) |-> s[Len(s) + 1 - i]]

\* the allowed pool: the sorted built-in list, as load_words builds it, or the
\* same words in descending order
ScoreAllowed ==
  { SortWords(Range(FALLBACK)), Reversed(SortWords(Range(FALLBACK))) }

InitScore ==
  /\ NoSession
  /\ fn = NotCalled
  /\ args \in [candidates : ScoreCandidates, allowed : ScoreAllowed]
  /\ ret = NoResult

\* neither function has a raise statement, and no operation of theirs raises on
\* these inputs: "raised" is "none", "value" the returned pair, "pool" the list
\* best_entropy_guess scanned
CallBestEntropy ==
  /\ fn = NotCalled
  /\ fn' = "best_entropy_guess"
  /\ ret' = [raised |-> "none",
             value  |-> best_entropy_guess(args.candidates, args.allowed),
             pool   |-> SearchPool(args.candidates, args.allowed)]
  /\ UNCHANGED <<sessionVars, args>>

CallBestLikelihood ==
  /\ fn = NotCalled
  /\ fn' = "best_likelihood_guess"
  /\ ret' = [raised |-> "none",
             value  |-> best_likelihood_guess(args.candidates)]
  /\ UNCHANGED <<sessionVars, args>>

NextScore == CallBestEntropy \/ CallBestLikelihood

SpecScore == InitScore /\ [][NextScore]_vars

(***************************************************************************)
(* Properties                                                              *)
(***************************************************************************)

\* the last _apply_feedback call passed both validations and reached the filter
\* what _apply_feedback reads from the guess entry: its local guess
EntryGuess == lower(strip(guess_entry))

\* the call that reads the widgets as they are is accepted: it passes both
\* validations and reaches the filter
CallAccepted == ~InvalidGuess(EntryGuess) /\ ~InvalidPattern(pattern_buttons)

\* the place in b where a[hi] is found when a[lo..hi] are looked up one after
\* the other, each at the first place of b after the one before it (prev for
\* a[lo]); Len(b) + 1 once one of them is not found
RECURSIVE EmbedPlace(_, _, _, _, _)
EmbedPlace(a, b, lo, hi, prev) ==
  IF lo > hi THEN prev
  ELSE IF lo = hi
    THEN LET later == {j \in (prev + 1)..Len(b) : b[j] = a[lo]}
         IN  IF later = {} THEN Len(b) + 1
             ELSE CHOOSE j \in later : \A k \in later : j <= k
  ELSE LET first == EmbedPlace(a, b, lo, Mid(lo, hi), prev)
       IN  Strict(first, EmbedPlace(a, b, Mid(lo, hi) + 1, hi, first))

\* a is b with some of its elements removed, the others in their order
IsSubsequence(a, b) == EmbedPlace(a, b, 1, Len(a), 0) <= Len(b)

\* C1: in every state of a session, each word of self.candidates produces, for
\* every (guess, pattern) pair accepted so far, exactly that pattern against that
\* guess, whichever path (normal, solved, no candidates) the pair was applied on.
C1_CandidatesConsistentWithAccepted ==
  \A pair \in accepted :
    \A i \in 1..Len(candidates) : pattern_for(pair[1], candidates[i]) = pair[2]

\* a solved application after an earlier pair, with candidates left
C1_Witness ==
  /\ signal = "Solved"
  /\ Cardinality(accepted) >= 2
  /\ candidates # <<>>

\* C2: every step of a session, and so every _apply_feedback call, leaves
\* self.candidates a subsequence of its value before the step and of the answer
\* pool (no word added, re-added or moved), and a call rejected for its guess or
\* pattern leaves it unchanged.
C2_CandidatesOnlyShrink ==
  /\ candidates = answers
  /\ [][ /\ IsSubsequence(candidates', candidates)
         /\ IsSubsequence(candidates', answers)
         /\ (ApplyFeedback /\ ~CallAccepted) => candidates' = candidates ]_vars
\* a filter kept several words, a repeated one among them, and dropped others
C2_Witness ==
  /\ turn >= 2
  /\ Len(candidates) >= 3
  /\ Len(candidates) < Len(answers)
  /\ \E i, j \in 1..Len(candidates) : i < j /\ candidates[i] = candidates[j]

\* C3: the turn counter starts at 1; an _apply_feedback call adds exactly 1 to it
\* when it is accepted and non-terminal (the pattern is not all-Correct and the
\* filtered candidate set is non-empty), and every other step leaves it
\* unchanged (a rejected call, an all-Correct application, an application that
\* empties the set, and the callbacks that only change the widgets).
C3_TurnCounter ==
  /\ turn = 1
  /\ [][ turn' = IF /\ ApplyFeedback
                    /\ CallAccepted
                    /\ pattern_buttons # AllCorrect
                    /\ candidates' # <<>>
                   THEN turn + 1
                   ELSE turn ]_vars
\* the counter was advanced once and then kept by an application that emptied
\* the candidate set
C3_Witness ==
  /\ turn = 2
  /\ signal = "No candidates"
  /\ Cardinality(accepted) >= 2

\* C4 (as claimed): when _apply_feedback is called with all-Correct on the
\* buttons and a guess that is still a candidate, the call raises the solved
\* signal and leaves self.candidates the one-word list of that guess.
C4_SolvedLeavesSingleton ==
  [][ ( /\ ApplyFeedback
        /\ CallAccepted
        /\ pattern_buttons = AllCorrect
        /\ Member(EntryGuess, candidates) )
      => ( signal' = "Solved" /\ candidates' = <<EntryGuess>> ) ]_vars

\* C5: for every letter of the guess, pattern_for marks at most as many of its
\* positions Correct or Present as the solution holds that letter.
C5_DuplicateLetterCap ==
  fn = "pattern_for" =>
    \A c \in Range(args.guess) :
      Cardinality({i \in 1..WordLen : args.guess[i] = c /\ ret[i] \in {"C", "P"}})
        <= Cardinality({i \in 1..WordLen : args.solution[i] = c})

\* "sassy" against "class": three s in the guess, two in the solution, two marks
C5_Witness ==
  /\ fn = "pattern_for"
  /\ args.guess = Sassy
  /\ args.solution = Class
  /\ ret = <<"P","P","N","C","N">>

\* the entropies of the words pool[lo..hi], in pool order
RECURSIVE EntropyList(_, _, _, _)
EntropyList(pool, cands, lo, hi) ==
  IF lo > hi THEN <<>>
  ELSE IF lo = hi THEN <<entropy_of_guess(pool[lo], cands)>>
  ELSE EntropyList(pool, cands, lo, Mid(lo, hi))
         \o EntropyList(pool, cands, Mid(lo, hi) + 1, hi)

\* the positions of a list of entropies that hold its greatest entropy
MaxEntropyPositions(ents) ==
  {i \in 1..Len(ents) : \A j \in 1..Len(ents) : ~EntropyGreater(ents[j], ents[i])}

LeastOf(S) == CHOOSE i \in S : \A j \in S : i <= j

\* C6: on a non-empty pool best_entropy_guess returns a guess of maximal entropy
\* over the pool: the first maximal-entropy guess in pool order that is a member
\* of candidates if there is one, and otherwise the first maximal-entropy guess
\* in pool order; the entropy returned is that guess's.
C6_BestEntropyGuessRule ==
  (fn = "best_entropy_guess" /\ ret.pool # <<>>) =>
    LET ents   == EntropyList(ret.pool, args.candidates, 1, Len(ret.pool))
        best   == MaxEntropyPositions(ents)
        inCand == {i \in best : Member(ret.pool[i], args.candidates)}
        pick   == IF inCand # {} THEN LeastOf(inCand) ELSE LeastOf(best)
    IN  /\ ret.value[1] = ret.pool[pick]
        /\ ret.value[2] = ents[pick]

\* the tie-break decided: the first maximal-entropy guess of the pool is no
\* candidate, and a later one of equal entropy, a candidate, was returned
C6_Witness ==
  /\ fn = "best_entropy_guess"
  /\ ret.pool # <<>>
  /\ LET ents == EntropyList(ret.pool, args.candidates, 1, Len(ret.pool))
         best == MaxEntropyPositions(ents)
     IN  /\ ~Member(ret.pool[LeastOf(best)], args.candidates)
         /\ Member(ret.value[1], args.candidates)
         /\ ret.value[1] # ret.pool[LeastOf(best)]

\* C7: with 31 or more candidates best_entropy_guess scans allowed, and returns
\* a word of allowed; with 1 to 30 candidates it scans the candidates only, and
\* returns a candidate, whatever entropy the words of allowed have.
C7_PoolBoundary ==
  fn = "best_entropy_guess" =>
    /\ Len(args.candidates) >= PoolThreshold + 1
         => /\ ret.pool = args.allowed
            /\ Member(ret.value[1], args.allowed)
    /\ (Len(args.candidates) <= PoolThreshold /\ args.candidates # <<>>)
         => /\ ret.pool = args.candidates
            /\ Member(ret.value[1], args.candidates)

\* exactly 30 candidates, and a word of allowed with strictly more entropy than
\* the candidate returned
C7_Witness ==
  /\ fn = "best_entropy_guess"
  /\ Len(args.candidates) = PoolThreshold
  /\ Member(ret.value[1], args.candidates)
  /\ \E i \in 1..Len(args.allowed) :
       EntropyGreater(entropy_of_guess(args.allowed[i], args.candidates),
                      ret.value[2])

\* C8 (as claimed): asked to rank an empty candidate list, best_likelihood_guess
\* and best_entropy_guess fail with EmptyInput rather than return a value.
C8_EmptyInputFails ==
  ( /\ fn \in {"best_likelihood_guess", "best_entropy_guess"}
    /\ args.candidates = <<>> )
  => ret.raised = "EmptyInput"

\* C9: filtering the result of filter_candidates again, with the same guess and
\* pattern, returns the same list: same words, same order, same repetitions.
C9_FilterIdempotent ==
  fn = "filter_candidates" =>
    \A k \in 2..Len(ret) : ret[k] = ret[1]

\* the filter was applied twice to a list of which it kept several words and
\* dropped others
C9_Witness ==
  /\ fn = "filter_candidates"
  /\ Len(ret) >= 2
  /\ Len(ret[1]) >= 2
  /\ Len(ret[1]) < Len(args.cands)

\* C10 (as claimed): after an accepted _apply_feedback call the max-info guess
\* shown is the placeholder when self.candidates is empty, and otherwise the
\* guess best_entropy_guess returns for the candidates as they are now.
C10_RecommendationMatchesCandidates ==
  [][ (ApplyFeedback /\ CallAccepted)
      => ent_guess_var' = IF candidates' = <<>>
                            THEN Dash
                            ELSE best_entropy_guess(candidates', allowed)[1] ]_vars

====
